---------------------------- MODULE Spec2Model ----------------------------
(***************************************************************************)
(* BayScan scoring and learning engine.                                    *)
(*                                                                         *)
(* The FastAPI request handlers of app/main.py are coroutines (async def)  *)
(* without any await in their bodies, served by one uvicorn process: they  *)
(* run one at a time on the event loop.  The APScheduler                   *)
(* BackgroundScheduler of app/scheduler.py runs its jobs on worker         *)
(* threads, concurrently with the event loop and with each other, each     *)
(* with its own SQLAlchemy session.  A step of the model is one database   *)
(* statement (a query, or the flush+commit of a session).  The pysqlite    *)
(* driver opens no transaction for a SELECT, so a session holds no lock    *)
(* between its read of a row and the commit that writes it.                *)
(*                                                                         *)
(* Scores are kept in tenths of a point; a smoothed score is cut to a      *)
(* tenth.  A timestamp is kept as the number of Catch rows committed       *)
(* before datetime.utcnow() was read, which orders every timestamp against *)
(* every catch commit.                                                     *)
(***************************************************************************)
EXTENDS Integers, Sequences, FiniteSets, TLC

\* ------------------------------------------------------------------ bounds
MaxRequests == 1
MaxPeriodicRuns == 1
MaxCatchEvents == 2
MaxJobRuns == 1
MaxLearnEvents == 3
MaxOldCatches == 1
MaxInputEvents == 2
MaxServeEvents == 3
MaxRigEvents == 4

\* predator sightings posted, and the hours of their times before and after now
MaxSightings == 2
MaxSightingAge == 5
MaxSightingAhead == 1

\* minutes the scheduler runs, and minutes of age of the latest snapshot that
\* an earlier run of the program left
MaxClock == 21
MaxRowAge == 7

\* hours of the forecast horizon, and runs of the fetch interval
HoursAhead == 4
MaxFetchTicks == 1

\* largest catch count of a pair given to the smoothing
MaxCatchCount == 101

\* species in a top-species list, and the species they are drawn from
MaxTopSpecies == 2
TopSpeciesKeys == {"redfish", "flounder", "mullet", "speckled_trout",
                   "sheepshead", "white_trout"}

\* minutes the clients of the external sources are followed
MaxClientClock == 60

\* catches of a pair given to the recent-activity modifier
MaxRecentCatches == 2
\* hours of lookback and points per catch of the recent-activity modifier
ActivityLookback == 6
ActivityBase == 4

\* ---------------------------------------------------------------- universe
SpeciesSet == {"speckled_trout"}
ZoneSet == {"Zone 3"}
BaitSet == {"live_shrimp"}
RigSet == {"jig"}
TideBands == {"incoming", "unknown"}
Slots == {1, 2}
\* sums of the sub-scores of a raw score, in tenths, before clamping
RawSums == {-50, 450, 1200}


\* the keys of SPECIES_PROFILES
SPECIES_PROFILES == {"speckled_trout", "redfish", "flounder", "sheepshead",
                     "black_drum", "croaker", "white_trout", "menhaden",
                     "mullet", "live_shrimp", "fiddler_crab", "jack_crevalle"}

TIER_1_SPECIES == <<"speckled_trout", "redfish", "flounder", "sheepshead", "black_drum">>
TIER_2_SPECIES == <<"croaker", "white_trout", "menhaden", "mullet",
                    "jack_crevalle", "blue_crab">>
PeriodicPreySpecies == <<"speckled_trout", "white_trout", "menhaden", "mullet">>
LogPredatorPreySpecies == <<"speckled_trout", "white_trout", "menhaden", "mullet">>
AllZones == <<"Zone 1", "Zone 2", "Zone 3", "Zone 4", "Zone 5">>

SeqRange(q) == {q[i] : i \in 1..Len(q)}
InUniverse(x) == x \in SpeciesSet
Restrict(q) == SelectSeq(q, InUniverse)

predator_map(bait) ==
    IF bait \in {"live_shrimp", "shrimp"}
    THEN <<"speckled_trout", "redfish", "flounder", "sheepshead", "black_drum">>
    ELSE IF bait \in {"menhaden", "mullet"}
    THEN <<"redfish", "speckled_trout", "jack_crevalle">>
    ELSE IF bait \in {"fiddler_crab", "fiddler"}
    THEN <<"sheepshead", "black_drum">>
    ELSE <<>>

\* ----------------------------------------------------------- pure functions
Max2(a, b) == IF a >= b THEN a ELSE b
Min2(a, b) == IF a <= b THEN a ELSE b

\* max(0.0, min(100.0, x)), x in tenths
ClampScore(x) == Max2(0, Min2(1000, x))

\* a smoothing that gives the raw score no weight
get_smoothing_weight_frozen(total_catches) == 0 * total_catches

\* a smoothing weight that grows with the catch count
get_smoothing_weight_rising(total_catches) == 1600 + 4 * Min2(total_catches, 100)

\* smoothing weight w, as w * 4000
get_smoothing_weight(total_catches) ==
    IF total_catches < 10 THEN 1600 + 40 * total_catches
    ELSE IF total_catches < 50 THEN 800 + 10 * (50 - total_catches)
    ELSE 400 + 4 * (100 - Min2(total_catches, 100))

get_score_rating(score) ==
    IF score <= 200 THEN "Poor"
    ELSE IF score <= 400 THEN "Fair"
    ELSE IF score <= 600 THEN "Good"
    ELSE IF score <= 800 THEN "Great"
    ELSE "Excellent"

get_confidence_level(total_catches) ==
    IF total_catches < 10 THEN "low"
    ELSE IF total_catches < 50 THEN "medium"
    ELSE "high"

\* final_score = max(0.0, min(100.0, sum of the sub-scores))
calculate_zone_bite_score(rawsum) == ClampScore(rawsum)

\* a bait rating without the clamp
calculate_bait_rating_unclamped(rawsum) == rawsum

calculate_bait_rating(rawsum) == ClampScore(rawsum)

\* ----------------------------------------------------------------- state
VARIABLES
    catches,        \* Catch rows
    baitLogs,       \* BaitLog rows
    predatorLogs,   \* PredatorLog rows
    seq,            \* AUTOINCREMENT counters of the three log tables
    biteScores,     \* BiteScore rows
    baitScores,     \* BaitScore rows
    rigEffects,     \* RigEffect rows
    zoneCondEffects,\* ZoneConditionEffect rows
    rigCondEffects, \* RigConditionEffect rows
    tips,           \* SpeciesZoneTip rows
    h,              \* request handlers in flight, by connection slot
    per,            \* the periodic_score_recalc job instance
    jobs,           \* the other scheduler job instances, by job id
    tide_stage,     \* tide band of the latest stored environment data
    snapshots,      \* number of EnvironmentSnapshot rows
    windows,        \* number of ForecastWindow generations stored for the horizon
    clock,          \* datetime.utcnow() of the scheduler specifications, in minutes
    snapshotRows,   \* EnvironmentSnapshot rows, by timestamp
    forecastWindows,\* ForecastWindow rows
    speciesForecasts,\* SpeciesForecast rows
    alerts,         \* Alert rows
    safety_level,   \* marine safety level of the present conditions
    evaluated,      \* history: the results of the last evaluation of a scoring function
    budget,         \* requests and job firings still to come
    completed,      \* history: catch events whose triggers ran to the end
    clients         \* module state of the water-temperature and weather clients

vars == <<catches, baitLogs, predatorLogs, seq, biteScores, baitScores,
          rigEffects, zoneCondEffects, rigCondEffects, tips, h, per, jobs,
          tide_stage, snapshots, windows, clock, snapshotRows, forecastWindows,
                  speciesForecasts, alerts, safety_level, evaluated, budget, completed, clients>>

NoRow == [id |-> 0, species |-> "", zone |-> "", score |-> 0, rating |-> "",
          confidence |-> "", last_updated |-> 0]

NoRc == [species |-> "", zone |-> "", now |-> 0, N |-> 0, raw |-> 0,
         old |-> NoRow, force |-> FALSE]

\* body_rig_type is the "rig_type" key of a request body, which CatchCreate
\* does not declare; rig is the local rig_type of log_catch
HIdle == [pc |-> "idle", type |-> "", species |-> "", zone |-> "",
          presentation |-> "", body_rig_type |-> "", rig |-> "",
          bait |-> "", tide |-> "", target |-> 0, catchId |-> 0,
          persistedAt |-> 0, todo |-> <<>>, rc |-> NoRc, raised |-> FALSE,
          response |-> "", log |-> <<>>]

PerIdle == [pc |-> "idle", pairs |-> {}, cur |-> <<"", "">>, rc |-> NoRc]

JobIds == {"fetch_data", "fetch_data_startup", "capture_environment",
           "capture_environment_startup"}

NextRowId(rows) == 1 + Cardinality(rows)

RowsOf(rows, sp, zn) == {r \in rows : r.species = sp /\ r.zone = zn}

\* None, for an observation
NoValue == [reading |-> 0, station_id |-> "", timestamp |-> 0]

\* _cached_water_temp / _cached_observations and _cache_timestamp of the two
\* clients at import; returned and outcome keep the last call's result
ClientsIdle ==
    [c \in {"water_temp", "weather"} |->
        [cached |-> NoValue, cache_timestamp |-> 0, returned |-> NoValue,
         outcome |-> ""]]

\* the process has started over a database that holds the cached rows
\* `rows`, and tide data and an environment snapshot when `env`; `requests`
\* requests will arrive
BootRows(old_catches, rows, rigs, zces, rces, requests, env, snaps, level) ==
    /\ catches = old_catches
    /\ baitLogs = {}
    /\ predatorLogs = {}
    /\ seq = [catch |-> 1 + Cardinality(old_catches), bait |-> 1, pred |-> 1]
    /\ biteScores = rows
    /\ baitScores = {}
    /\ rigEffects = rigs
    /\ zoneCondEffects = zces
    /\ rigCondEffects = rces
    /\ tips = {}
    /\ h = [s \in Slots |-> HIdle]
    /\ per = PerIdle
    /\ jobs = [j \in JobIds |-> [pc |-> "idle", fired |-> 0]]
    /\ tide_stage = IF env THEN "incoming" ELSE "unknown"
    /\ snapshots = IF env THEN 1 ELSE 0
    /\ windows = 0
    /\ clock = 0
    /\ snapshotRows = snaps
    /\ forecastWindows = {}
    /\ speciesForecasts = {}
    /\ alerts = {}
    /\ safety_level = level
    /\ evaluated = {}
    /\ budget = [req |-> requests, per |-> MaxPeriodicRuns]
    /\ completed = {}
    /\ clients = ClientsIdle

BootAll(old_catches, rows, rigs, zces, rces, requests, env) ==
    BootRows(old_catches, rows, rigs, zces, rces, requests, env, {}, "SAFE")

Boot(rows, requests, env) == BootAll({}, rows, {}, {}, {}, requests, env)

\* an empty cache, the environment captured
Init == Boot({}, MaxRequests, TRUE)

\* datetime.utcnow(): the number of Catch commits so far
Now == seq.catch - 1

\* ------------------------------------------------ recalculate_bite_score
\* STEP A, C: without a snapshot the conditions come from
\* get_current_conditions, which has no tide_state key without a forecast
\* window; then conditions['tide_stage'] is None and, for a species with a
\* behaviour profile, conditions.get('tide_stage', 'slack').lower() raises
CanScore(sp) == snapshots > 0 \/ windows > 0 \/ sp \notin SPECIES_PROFILES

\* STEP A-D: now, total_catches and the raw score
RecalcLoad(sp, zn, rawsum) ==
    [species |-> sp, zone |-> zn, now |-> Now,
     N |-> Cardinality(RowsOf(catches, sp, zn)),
     raw |-> calculate_zone_bite_score(rawsum),
     old |-> NoRow, force |-> FALSE]

\* query(...).first(): no ORDER BY, any matching row, None when there is none
FirstCandidates(rows) == IF rows = {} THEN {NoRow} ELSE rows

\* a recompute that always stores the raw score
RecalcNewScore_raw(rc) == ClampScore(rc.raw)

\* STEP E: smoothing, then the clamp
RecalcNewScore(rc) ==
    LET w == get_smoothing_weight(rc.N)
        smoothed == IF rc.old.id # 0 /\ ~rc.force
                    THEN (rc.old.score * (4000 - w) + rc.raw * w) \div 4000
                    ELSE rc.raw
    IN ClampScore(smoothed)

\* The unit of work writes, WHERE id = the loaded id, the columns whose new
\* value differs from the value this session loaded.  The value of utcnow()
\* never equals a stored timestamp, so last_updated is always written.
FlushUpdate(cur, loaded, new) ==
    [cur EXCEPT
       !.score = IF new.score # loaded.score THEN new.score ELSE @,
       !.rating = IF new.rating # loaded.rating THEN new.rating ELSE @,
       !.confidence = IF new.confidence # loaded.confidence
                      THEN new.confidence ELSE @,
       !.last_updated = new.last_updated]

\* STEP F-H: rating, confidence, upsert and commit
RecalcWrite(rc) ==
    LET score == RecalcNewScore(rc)
        new == [id |-> rc.old.id, species |-> rc.species, zone |-> rc.zone,
                score |-> score, rating |-> get_score_rating(score),
                confidence |-> get_confidence_level(rc.N),
                last_updated |-> rc.now]
    IN IF rc.old.id # 0
       THEN {IF r.id = rc.old.id THEN FlushUpdate(r, rc.old, new) ELSE r :
                r \in biteScores}
       ELSE biteScores \cup {[new EXCEPT !.id = NextRowId(biteScores)]}

\* ------------------------------------------------ recalculate_bait_score
recalculate_bait_score(bait, zn, rawsum) ==
    LET score == calculate_bait_rating(rawsum)
        olds == RowsOf(baitScores, bait, zn)
        old == CHOOSE r \in olds : \A q \in olds : r.id <= q.id
        new == [id |-> NextRowId(baitScores), species |-> bait, zone |-> zn,
                score |-> score, rating |-> get_score_rating(score),
                last_updated |-> Now]
    IN IF olds # {}
       THEN {IF r.id = old.id THEN [new EXCEPT !.id = old.id] ELSE r :
                r \in baitScores}
       ELSE baitScores \cup {new}

\* ------------------------------------------------------ learning updaters
\* 1000 * ln(success_count + 1), success_count in hundredths
LnMilli(count) ==
    CASE count = 100 -> 693 [] count = 200 -> 1099 [] count = 300 -> 1386
      [] count = 400 -> 1609 [] count = 500 -> 1792 [] count = 600 -> 1946
      [] count = 700 -> 2079 [] count = 800 -> 2197 [] count = 900 -> 2303
      [] count = 1000 -> 2398
      [] count = 15 -> 140 [] count = 30 -> 262 [] count = 45 -> 372
      [] count = 60 -> 470 [] count = 75 -> 560 [] count = 90 -> 642
      [] count = 1800 -> 2944 [] count = 1900 -> 2996 [] count = 2000 -> 3045
      [] count = 2100 -> 3091 [] count = 2200 -> 3135 [] count = 2300 -> 3178
      [] count = 2400 -> 3219
      [] count = 5200 -> 3970 [] count = 5300 -> 3989 [] count = 5400 -> 4007
      [] count = 5500 -> 4025 [] count = 5600 -> 4043 [] count = 5700 -> 4060
      [] count = 5800 -> 4078

FirstRow(rows) == CHOOSE r \in rows : \A q \in rows : r.id <= q.id

\* an update_rig_effect that counts the Catch rows stored for the rig
update_rig_effect_recount(sp, zn, rig) ==
    LET olds == {r \in RowsOf(rigEffects, sp, zn) : r.rig = rig}
        old == FirstRow(olds)
        cnt == 100 * Cardinality({c \in RowsOf(catches, sp, zn) : c.rig = rig})
        new == [id |-> IF olds # {} THEN old.id ELSE NextRowId(rigEffects),
                species |-> sp, zone |-> zn, rig |-> rig,
                success_count |-> cnt, weight |-> Min2(3000, LnMilli(cnt)),
                last_used |-> Now]
    IN {r \in rigEffects : olds = {} \/ r.id # old.id} \cup {new}

\* an update_rig_effect that stores the logarithm without the cap
update_rig_effect_uncapped(sp, zn, rig) ==
    LET olds == {r \in RowsOf(rigEffects, sp, zn) : r.rig = rig}
        old == FirstRow(olds)
        cnt == IF olds # {} THEN old.success_count + 100 ELSE 100
        new == [id |-> IF olds # {} THEN old.id ELSE NextRowId(rigEffects),
                species |-> sp, zone |-> zn, rig |-> rig,
                success_count |-> cnt, weight |-> LnMilli(cnt),
                last_used |-> Now]
    IN {r \in rigEffects : olds = {} \/ r.id # old.id} \cup {new}

update_rig_effect(sp, zn, rig) ==
    LET olds == {r \in RowsOf(rigEffects, sp, zn) : r.rig = rig}
        old == FirstRow(olds)
        cnt == IF olds # {} THEN old.success_count + 100 ELSE 100
        new == [id |-> IF olds # {} THEN old.id ELSE NextRowId(rigEffects),
                species |-> sp, zone |-> zn, rig |-> rig,
                success_count |-> cnt, weight |-> Min2(3000, LnMilli(cnt)),
                last_used |-> Now]
    IN IF rig = "" \/ rig = "unknown" THEN rigEffects
       ELSE {r \in rigEffects : olds = {} \/ r.id # old.id} \cup {new}

update_zone_condition_effect(sp, zn, tide_band, mult) ==
    LET olds == {r \in RowsOf(zoneCondEffects, sp, zn) : r.tide_band = tide_band}
        old == FirstRow(olds)
        cnt == IF olds # {} THEN old.success_count + mult ELSE mult
        new == [id |-> IF olds # {} THEN old.id ELSE NextRowId(zoneCondEffects),
                species |-> sp, zone |-> zn, tide_band |-> tide_band,
                clarity_band |-> "clean", wind_band |-> "neutral",
                current_band |-> "low",
                success_count |-> cnt, weight |-> Min2(4000, LnMilli(cnt))]
    IN IF tide_band = "unknown" THEN zoneCondEffects
       ELSE {r \in zoneCondEffects : olds = {} \/ r.id # old.id} \cup {new}

update_rig_condition_effect(sp, rig, tide_band, mult) ==
    LET olds == {r \in rigCondEffects :
                    r.species = sp /\ r.rig = rig /\ r.tide_band = tide_band}
        old == FirstRow(olds)
        cnt == IF olds # {} THEN old.success_count + mult ELSE mult
        new == [id |-> IF olds # {} THEN old.id ELSE NextRowId(rigCondEffects),
                species |-> sp, rig |-> rig, tide_band |-> tide_band,
                clarity_band |-> "clean",
                success_count |-> cnt, weight |-> Min2(4000, LnMilli(cnt))]
    IN IF rig = "" \/ rig = "unknown" \/ tide_band = "unknown" THEN rigCondEffects
       ELSE {r \in rigCondEffects : olds = {} \/ r.id # old.id} \cup {new}

\* ------------------------------------------------------------ tip update
DEFAULT_RIGS(sp) ==
    CASE sp = "speckled_trout" -> "popping_cork"
      [] sp \in {"redfish", "flounder", "white_trout"} -> "jig"
      [] sp \in {"sheepshead", "black_drum", "croaker"} -> "bottom_rig"
      [] OTHER -> "jig"

\* order_by(RigEffect.weight.desc()).first() over the rows with
\* success_count >= min_uses: a row of the highest weight; rows of equal
\* weight come in no defined order.  "" stands for None.
get_best_rig_for_zone(sp, zn, min_uses) ==
    LET rows == {r \in RowsOf(rigEffects, sp, zn) : r.success_count >= min_uses}
    IN IF rows = {} THEN {""}
       ELSE {r.rig : r \in {x \in rows : \A y \in rows : x.weight >= y.weight}}

\* the rigs generate_tip may name
TipRigs(sp, zn) ==
    {IF rig = "" THEN DEFAULT_RIGS(sp) ELSE rig :
        rig \in get_best_rig_for_zone(sp, zn, 200)}

\* generate_tip gives no tip when there is no cached row or its score < 50;
\* update_species_zone_tip then deletes the first existing tip, else upserts
update_species_zone_tip(sp, zn, row, rig) ==
    LET olds == RowsOf(tips, sp, zn)
        old == FirstRow(olds)
        new == [id |-> IF olds # {} THEN old.id ELSE NextRowId(tips),
                species |-> sp, zone |-> zn, rig |-> rig,
                last_updated |-> Now]
    IN IF row.id = 0 \/ row.score < 500
       THEN {r \in tips : olds = {} \/ r.id # old.id}
       ELSE {r \in tips : olds = {} \/ r.id # old.id} \cup {new}

\* -------------------------------------------------------- request handlers
UnchangedButHandler ==
    UNCHANGED <<catches, baitLogs, predatorLogs, seq, biteScores,
                baitScores, rigEffects, zoneCondEffects, rigCondEffects, tips,
                per, jobs, tide_stage, snapshots, windows, clock, snapshotRows, forecastWindows,
                        speciesForecasts, alerts, safety_level, evaluated, budget, completed, clients>>

Payloads ==
    {[HIdle EXCEPT !.type = "log_catch", !.species = sp, !.zone = zn,
                   !.presentation = rig] :
        sp \in SpeciesSet, zn \in ZoneSet, rig \in RigSet}
    \cup {[HIdle EXCEPT !.type = "get_zone_bite_scores", !.species = sp, !.zone = zn] :
        sp \in SpeciesSet, zn \in ZoneSet}
    \cup {[HIdle EXCEPT !.type = "log_bait", !.bait = b, !.zone = zn] :
        b \in BaitSet, zn \in ZoneSet}
    \cup {[HIdle EXCEPT !.type = "log_predator", !.zone = zn] : zn \in ZoneSet}
    \cup {[HIdle EXCEPT !.type = t, !.target = 1] :
        t \in {"delete_catch", "delete_bait_log", "delete_predator_log"}}

\* handlers run on a thread pool instead (plain "def" endpoints)
ThreadPerRequest(s) == TRUE

\* The handlers are coroutines that never await: the event loop runs one
\* handler body from its first statement to its return before the next.
EventLoopFree(s) == \A o \in Slots : h[o].pc \in {"idle", "done"}

FirstPc(type) ==
    CASE type = "log_catch" -> "commit"
      [] type = "log_bait" -> "commit"
      [] type = "log_predator" -> "commit"
      [] type = "get_zone_bite_scores" -> "get"
      [] OTHER -> "delete"

\* what a handler leaves behind when it has returned
Done(r, response) ==
    [HIdle EXCEPT !.pc = "done", !.type = r.type, !.species = r.species,
                  !.zone = r.zone, !.presentation = r.presentation,
                  !.body_rig_type = r.body_rig_type, !.raised = r.raised,
                  !.catchId = r.catchId, !.response = response]

\* the event loop takes a request in flight and starts its handler, on the
\* first connection slot that is not running one
DispatchFrom(s, payloads) ==
    /\ h[s].pc \in {"idle", "done"}
    /\ \A o \in Slots : o < s => h[o].pc \notin {"idle", "done"}
    /\ EventLoopFree(s)
    /\ budget.req > 0
    /\ \E p \in payloads : h' = [h EXCEPT ![s] = [p EXCEPT !.pc = FirstPc(p.type)]]
    /\ budget' = [budget EXCEPT !.req = @ - 1]
    /\ UNCHANGED <<catches, baitLogs, predatorLogs, seq, biteScores,
                   baitScores, rigEffects, zoneCondEffects, rigCondEffects, tips,
                   per, jobs, tide_stage, snapshots, windows, clock, snapshotRows, forecastWindows,
                           speciesForecasts, alerts, safety_level, evaluated, completed, clients>>

Dispatch(s) == DispatchFrom(s, Payloads)

\* POST /api/catches only
CatchPayloads == {p \in Payloads : p.type = "log_catch"}

DispatchCatch(s) == DispatchFrom(s, CatchPayloads)

\* ---- log_catch
\* a log_catch that recomputes the score right after the Catch commit
LogCatchCommitRecalcFirst(s) ==
    /\ h[s].type = "log_catch" /\ h[s].pc = "commit"
    /\ h' = [h EXCEPT ![s].pc = "rc_begin", ![s].tide = tide_stage,
                      ![s].rig = h[s].presentation,
                      ![s].catchId = seq.catch, ![s].persistedAt = seq.catch,
                      ![s].log = Append(@, "catch_commit")]
    /\ catches' = catches \cup
         {[id |-> seq.catch, species |-> h[s].species, zone |-> h[s].zone,
           rig |-> h[s].presentation, recent |-> TRUE]}
    /\ seq' = [seq EXCEPT !.catch = @ + 1]
    /\ UNCHANGED <<baitLogs, predatorLogs, biteScores, baitScores,
                   rigEffects, zoneCondEffects, rigCondEffects, tips, per, jobs,
                   tide_stage, snapshots, windows, clock, snapshotRows, forecastWindows,
                           speciesForecasts, alerts, safety_level, evaluated, budget, completed, clients>>

LogCatchCommit(s) ==
    /\ h[s].type = "log_catch" /\ h[s].pc = "commit"
    /\ h' = [h EXCEPT ![s].pc = "rig", ![s].tide = tide_stage,
                      ![s].rig = h[s].presentation,
                      ![s].catchId = seq.catch, ![s].persistedAt = seq.catch,
                      ![s].log = Append(@, "catch_commit")]
    /\ catches' = catches \cup
         {[id |-> seq.catch, species |-> h[s].species, zone |-> h[s].zone,
           rig |-> h[s].presentation, recent |-> TRUE]}
    /\ seq' = [seq EXCEPT !.catch = @ + 1]
    /\ UNCHANGED <<baitLogs, predatorLogs, biteScores, baitScores,
                   rigEffects, zoneCondEffects, rigCondEffects, tips, per, jobs,
                   tide_stage, snapshots, windows, clock, snapshotRows, forecastWindows,
                           speciesForecasts, alerts, safety_level, evaluated, budget, completed, clients>>

\* an exception before or in the Catch commit: rollback, HTTP 500
LogCatchCommitFail(s) ==
    /\ h[s].type = "log_catch" /\ h[s].pc = "commit"
    /\ h' = [h EXCEPT ![s] = Done(h[s], "error500")]
    /\ UnchangedButHandler

\* every catch weighs 1.0 in the condition learning
condition_weight_full(sp, rig) == IF sp = rig THEN 100 ELSE 100

condition_weight(sp, rig) == IF sp = "blue_crab" /\ rig \in {"crab_trap", "crab_pot"} THEN 15 ELSE 100

LogCatchRig(s) ==
    /\ h[s].type = "log_catch" /\ h[s].pc = "rig"
    /\ rigEffects' = IF h[s].rig # ""
                     THEN update_rig_effect(h[s].species, h[s].zone, h[s].rig)
                     ELSE rigEffects
    /\ h' = [h EXCEPT ![s].pc = "zce", ![s].log = Append(@, "rig")]
    /\ UNCHANGED <<catches, baitLogs, predatorLogs, seq, biteScores,
                   baitScores, zoneCondEffects, rigCondEffects, tips, per, jobs,
                   tide_stage, snapshots, windows, clock, snapshotRows, forecastWindows,
                           speciesForecasts, alerts, safety_level, evaluated, budget, completed, clients>>

LogCatchZce(s) ==
    /\ h[s].type = "log_catch" /\ h[s].pc = "zce"
    /\ zoneCondEffects' = update_zone_condition_effect(h[s].species, h[s].zone,
                              h[s].tide, condition_weight(h[s].species, h[s].rig))
    /\ h' = [h EXCEPT ![s].pc = "rce", ![s].log = Append(@, "zce")]
    /\ UNCHANGED <<catches, baitLogs, predatorLogs, seq, biteScores,
                   baitScores, rigEffects, rigCondEffects, tips, per, jobs,
                   tide_stage, snapshots, windows, clock, snapshotRows, forecastWindows,
                           speciesForecasts, alerts, safety_level, evaluated, budget, completed, clients>>

LogCatchRce(s) ==
    /\ h[s].type = "log_catch" /\ h[s].pc = "rce"
    /\ rigCondEffects' = IF h[s].rig # ""
                         THEN update_rig_condition_effect(h[s].species, h[s].rig,
                              h[s].tide, condition_weight(h[s].species, h[s].rig))
                         ELSE rigCondEffects
    /\ h' = [h EXCEPT ![s].pc = "rc_begin", ![s].log = Append(@, "rce")]
    /\ UNCHANGED <<catches, baitLogs, predatorLogs, seq, biteScores,
                   baitScores, rigEffects, zoneCondEffects, tips, per, jobs,
                   tide_stage, snapshots, windows, clock, snapshotRows, forecastWindows,
                           speciesForecasts, alerts, safety_level, evaluated, budget, completed, clients>>

\* ---- recalculate_bite_score called from a handler
RcSpecies(r) == IF r.type \in {"log_bait", "log_predator"} THEN Head(r.todo) ELSE r.species

HRcBegin(s) ==
    /\ h[s].pc = "rc_begin"
    /\ CanScore(RcSpecies(h[s]))
    /\ \E rawsum \in RawSums :
         h' = [h EXCEPT ![s].pc = "rc_read",
                        ![s].rc = RecalcLoad(RcSpecies(h[s]), h[s].zone, rawsum),
                        ![s].log = IF h[s].type = "log_catch"
                                   THEN Append(@, "recalc_begin") ELSE @]
    /\ UnchangedButHandler

HRcRead(s) ==
    /\ h[s].pc = "rc_read"
    /\ \E row \in FirstCandidates(RowsOf(biteScores, h[s].rc.species, h[s].rc.zone)) :
         h' = [h EXCEPT ![s].pc = "rc_commit", ![s].rc.old = row]
    /\ UnchangedButHandler

\* where the handler goes on after the recompute returned or raised
AfterRecalc(r) ==
    CASE r.type = "log_catch" -> "tip"
      [] r.type = "get_zone_bite_scores" -> "respond"
      [] OTHER -> IF Len(r.todo) > 1 THEN "rc_begin" ELSE "respond"

HRcCommit(s) ==
    /\ h[s].pc = "rc_commit"
    /\ biteScores' = RecalcWrite(h[s].rc)
    /\ h' = [h EXCEPT ![s].pc = AfterRecalc(h[s]), ![s].rc = NoRc,
                      ![s].todo = IF @ = <<>> THEN @ ELSE Tail(@),
                      ![s].log = IF h[s].type = "log_catch"
                                 THEN Append(@, "recalc_done") ELSE @]
    /\ UNCHANGED <<catches, baitLogs, predatorLogs, seq, baitScores,
                   rigEffects, zoneCondEffects, rigCondEffects, tips, per, jobs,
                   tide_stage, snapshots, windows, clock, snapshotRows, forecastWindows,
                           speciesForecasts, alerts, safety_level, evaluated, budget, completed, clients>>

\* a tip update that drops the cached row it has read
LogCatchTipDropsRow(s) ==
    /\ h[s].type = "log_catch" /\ h[s].pc = "tip"
    /\ tips' = tips
    /\ biteScores' = biteScores \ RowsOf(biteScores, h[s].species, h[s].zone)
    /\ h' = [h EXCEPT ![s].pc = "respond", ![s].log = Append(@, "tip")]
    /\ UNCHANGED <<catches, baitLogs, predatorLogs, seq,
                   baitScores, rigEffects, zoneCondEffects, rigCondEffects, per,
                   jobs, tide_stage, snapshots, windows, clock, snapshotRows, forecastWindows,
                           speciesForecasts, alerts, safety_level, evaluated, budget, completed, clients>>

LogCatchTip(s) ==
    /\ h[s].type = "log_catch" /\ h[s].pc = "tip"
    /\ \E row \in FirstCandidates(RowsOf(biteScores, h[s].species, h[s].zone)),
          rig \in TipRigs(h[s].species, h[s].zone) :
         tips' = update_species_zone_tip(h[s].species, h[s].zone, row, rig)
    /\ h' = [h EXCEPT ![s].pc = "respond", ![s].log = Append(@, "tip")]
    /\ UNCHANGED <<catches, baitLogs, predatorLogs, seq, biteScores,
                   baitScores, rigEffects, zoneCondEffects, rigCondEffects, per,
                   jobs, tide_stage, snapshots, windows, clock, snapshotRows, forecastWindows,
                           speciesForecasts, alerts, safety_level, evaluated, budget, completed, clients>>

\* a log_catch without the inner try: the error reaches the outer handler,
\* which answers HTTP 500
LogCatchTriggerPropagate(s) ==
    /\ h[s].type = "log_catch"
    /\ h[s].pc \in {"rig", "zce", "rce", "rc_begin", "rc_read", "rc_commit", "tip"}
    /\ h' = [h EXCEPT ![s] = Done([h[s] EXCEPT !.raised = TRUE], "error500")]
    /\ UnchangedButHandler

\* one of the five trigger steps raises: the session is rolled back and the
\* handler of "except Exception" logs the error and falls through
LogCatchTriggerRaise(s) ==
    /\ h[s].type = "log_catch"
    /\ h[s].pc \in {"rig", "zce", "rce", "rc_begin", "rc_read", "rc_commit", "tip"}
    /\ h' = [h EXCEPT ![s].pc = "respond", ![s].raised = TRUE, ![s].rc = NoRc,
                      ![s].log = Append(@, "raise")]
    /\ UnchangedButHandler

LogCatchRespond(s) ==
    /\ h[s].type = "log_catch" /\ h[s].pc = "respond"
    /\ h' = [h EXCEPT ![s] = Done(h[s], "success")]
    /\ completed' = IF h[s].raised THEN completed
                    ELSE completed \cup {[species |-> h[s].species, zone |-> h[s].zone,
                                          rig |-> h[s].rig,
                                          persistedAt |-> h[s].persistedAt]}
    /\ UNCHANGED <<catches, baitLogs, predatorLogs, seq, biteScores,
                   baitScores, rigEffects, zoneCondEffects, rigCondEffects, tips,
                   per, jobs, tide_stage, snapshots, windows, clock, snapshotRows, forecastWindows,
                           speciesForecasts, alerts, safety_level, evaluated, budget, clients>>

\* ---- log_bait
LogBaitCommit(s) ==
    /\ h[s].type = "log_bait" /\ h[s].pc = "commit"
    /\ baitLogs' = baitLogs \cup
         {[id |-> seq.bait, species |-> h[s].bait, zone |-> h[s].zone,
           recent |-> TRUE]}
    /\ seq' = [seq EXCEPT !.bait = @ + 1]
    /\ h' = [h EXCEPT ![s].pc = "bait_rc",
                      ![s].todo = Restrict(predator_map(h[s].bait))]
    /\ UNCHANGED <<catches, predatorLogs, biteScores, baitScores,
                   rigEffects, zoneCondEffects, rigCondEffects, tips, per, jobs,
                   tide_stage, snapshots, windows, clock, snapshotRows, forecastWindows,
                           speciesForecasts, alerts, safety_level, evaluated, budget, completed, clients>>

LogBaitScore(s) ==
    /\ h[s].type = "log_bait" /\ h[s].pc = "bait_rc"
    /\ \E rawsum \in RawSums :
         baitScores' = recalculate_bait_score(h[s].bait, h[s].zone, rawsum)
    /\ h' = [h EXCEPT ![s].pc = IF h[s].todo = <<>> THEN "respond" ELSE "rc_begin"]
    /\ UNCHANGED <<catches, baitLogs, predatorLogs, seq, biteScores,
                   rigEffects, zoneCondEffects, rigCondEffects, tips, per, jobs,
                   tide_stage, snapshots, windows, clock, snapshotRows, forecastWindows,
                           speciesForecasts, alerts, safety_level, evaluated, budget, completed, clients>>

\* recalculate_bait_score raises: the outer "except Exception" of the
\* triggers skips the predator recomputes
LogBaitScoreRaise(s) ==
    /\ h[s].type = "log_bait" /\ h[s].pc = "bait_rc"
    /\ h' = [h EXCEPT ![s].pc = "respond", ![s].raised = TRUE]
    /\ UnchangedButHandler

\* ---- log_predator
LogPredatorCommit(s) ==
    /\ h[s].type = "log_predator" /\ h[s].pc = "commit"
    /\ predatorLogs' = predatorLogs \cup
         {[id |-> seq.pred, zone |-> h[s].zone, recent |-> TRUE]}
    /\ seq' = [seq EXCEPT !.pred = @ + 1]
    /\ h' = [h EXCEPT ![s].todo = Restrict(LogPredatorPreySpecies),
                      ![s].pc = IF Restrict(LogPredatorPreySpecies) = <<>>
                                THEN "respond" ELSE "rc_begin"]
    /\ UNCHANGED <<catches, baitLogs, biteScores, baitScores,
                   rigEffects, zoneCondEffects, rigCondEffects, tips, per, jobs,
                   tide_stage, snapshots, windows, clock, snapshotRows, forecastWindows,
                           speciesForecasts, alerts, safety_level, evaluated, budget, completed, clients>>

\* a recompute of one species raises inside the per-species try of log_bait
\* or log_predator: logged, the loop goes on with the next species
LoopRecalcRaise(s) ==
    /\ h[s].type \in {"log_bait", "log_predator"}
    /\ h[s].pc \in {"rc_begin", "rc_read", "rc_commit"}
    /\ h' = [h EXCEPT ![s].pc = AfterRecalc(h[s]), ![s].todo = Tail(@),
                      ![s].rc = NoRc, ![s].raised = TRUE]
    /\ UnchangedButHandler

\* ---- get_zone_bite_scores
GetZoneBiteScores(s) ==
    /\ h[s].type = "get_zone_bite_scores" /\ h[s].pc = "get"
    /\ h' = [h EXCEPT ![s].pc = IF RowsOf(biteScores, h[s].species, h[s].zone) # {}
                                THEN "respond" ELSE "rc_begin"]
    /\ UnchangedButHandler

GetRecalcRaise(s) ==
    /\ h[s].type = "get_zone_bite_scores"
    /\ h[s].pc \in {"rc_begin", "rc_read", "rc_commit"}
    /\ h' = [h EXCEPT ![s] = Done([h[s] EXCEPT !.raised = TRUE], "error500")]
    /\ UnchangedButHandler

\* ---- the return statement of log_bait, log_predator, get_zone_bite_scores
Respond(s) ==
    /\ h[s].type \in {"log_bait", "log_predator", "get_zone_bite_scores"}
    /\ h[s].pc = "respond"
    /\ h' = [h EXCEPT ![s] = Done(h[s], "success")]
    /\ UnchangedButHandler

\* ---- delete_catch, delete_bait_log, delete_predator_log
DeleteFrom(rows, id) == {r \in rows : r.id # id}

\* a delete that also takes back what the deleted catch had taught
DeleteLogUnlearns(s) ==
    /\ h[s].pc = "delete"
    /\ catches' = IF h[s].type = "delete_catch"
                  THEN DeleteFrom(catches, h[s].target) ELSE catches
    /\ rigEffects' = IF catches' # catches
                     THEN {[r EXCEPT !.success_count = @ - 100] : r \in rigEffects}
                     ELSE rigEffects
    /\ h' = [h EXCEPT ![s] = Done(h[s], IF catches' = catches
                                         THEN "error404" ELSE "success")]
    /\ UNCHANGED <<baitLogs, predatorLogs, seq, biteScores, baitScores,
                   zoneCondEffects, rigCondEffects, tips, per, jobs, tide_stage,
                   snapshots, windows, clock, snapshotRows, forecastWindows,
                           speciesForecasts, alerts, safety_level, evaluated, budget, completed, clients>>

DeleteLog(s) ==
    /\ h[s].pc = "delete"
    /\ catches' = IF h[s].type = "delete_catch"
                  THEN DeleteFrom(catches, h[s].target) ELSE catches
    /\ baitLogs' = IF h[s].type = "delete_bait_log"
                   THEN DeleteFrom(baitLogs, h[s].target) ELSE baitLogs
    /\ predatorLogs' = IF h[s].type = "delete_predator_log"
                       THEN DeleteFrom(predatorLogs, h[s].target) ELSE predatorLogs
    /\ h' = [h EXCEPT ![s] =
                 Done(h[s], IF catches' = catches /\ baitLogs' = baitLogs
                               /\ predatorLogs' = predatorLogs
                            THEN "error404" ELSE "success")]
    /\ UNCHANGED <<seq, biteScores, baitScores, rigEffects,
                   zoneCondEffects, rigCondEffects, tips, per, jobs, tide_stage, snapshots,
                   windows, clock, snapshotRows, forecastWindows,
                           speciesForecasts, alerts, safety_level, evaluated, budget, completed, clients>>

\* ------------------------------------------- periodic_score_recalculation
UnchangedButPer ==
    UNCHANGED <<catches, baitLogs, predatorLogs, seq, biteScores,
                baitScores, rigEffects, zoneCondEffects, rigCondEffects, tips,
                h, jobs, tide_stage, snapshots, windows, clock, snapshotRows, forecastWindows,
                        speciesForecasts, alerts, safety_level, evaluated, budget, completed, clients>>

\* the pairs one run recalculates
PairsToRecalc ==
    LET recent_catches == {<<c.species, c.zone>> : c \in {x \in catches : x.recent}}
        recent_predators == {p.zone : p \in {x \in predatorLogs : x.recent}}
        active == recent_catches \cup
                  {<<prey, zn>> : prey \in SeqRange(Restrict(PeriodicPreySpecies)),
                                  zn \in recent_predators}
    IN IF active # {} THEN active
       ELSE {<<sp, zn>> : sp \in SeqRange(Restrict(TIER_1_SPECIES)),
                          zn \in SeqRange(AllZones) \cap ZoneSet}

\* The interval trigger fires; max_instances is 1, so a firing while the
\* previous run is still going is skipped.
PeriodicFire ==
    /\ per.pc = "idle"
    /\ budget.per > 0
    /\ budget' = [budget EXCEPT !.per = @ - 1]
    /\ per' = [PerIdle EXCEPT !.pc = "loop", !.pairs = PairsToRecalc]
    /\ UNCHANGED <<catches, baitLogs, predatorLogs, seq, biteScores,
                   baitScores, rigEffects, zoneCondEffects, rigCondEffects, tips,
                   h, jobs, tide_stage, snapshots, windows, clock, snapshotRows, forecastWindows,
                           speciesForecasts, alerts, safety_level, evaluated, completed, clients>>

\* when the raw score cannot be computed the per-pair "except Exception" logs
\* the error and the loop takes the next pair
PerRcBegin ==
    /\ per.pc = "loop"
    /\ \E p \in per.pairs, rawsum \in RawSums :
         per' = IF CanScore(p[1])
                THEN [per EXCEPT !.pc = "rc_read", !.pairs = @ \ {p}, !.cur = p,
                                 !.rc = RecalcLoad(p[1], p[2], rawsum)]
                ELSE [per EXCEPT !.pairs = @ \ {p}]
    /\ UnchangedButPer

PerRcRead ==
    /\ per.pc = "rc_read"
    /\ \E row \in FirstCandidates(RowsOf(biteScores, per.rc.species, per.rc.zone)) :
         per' = [per EXCEPT !.pc = "rc_commit", !.rc.old = row]
    /\ UnchangedButPer

PerRcCommit ==
    /\ per.pc = "rc_commit"
    /\ biteScores' = RecalcWrite(per.rc)
    /\ per' = [per EXCEPT !.pc = "tip", !.rc = NoRc]
    /\ UNCHANGED <<catches, baitLogs, predatorLogs, seq, baitScores,
                   rigEffects, zoneCondEffects, rigCondEffects, tips, h, jobs,
                   tide_stage, snapshots, windows, clock, snapshotRows, forecastWindows,
                           speciesForecasts, alerts, safety_level, evaluated, budget, completed, clients>>

PerTip ==
    /\ per.pc = "tip"
    /\ \E row \in FirstCandidates(RowsOf(biteScores, per.cur[1], per.cur[2])),
          rig \in TipRigs(per.cur[1], per.cur[2]) :
         tips' = update_species_zone_tip(per.cur[1], per.cur[2], row, rig)
    /\ per' = [per EXCEPT !.pc = "loop", !.cur = PerIdle.cur]
    /\ UNCHANGED <<catches, baitLogs, predatorLogs, seq, biteScores,
                   baitScores, rigEffects, zoneCondEffects, rigCondEffects, h,
                   jobs, tide_stage, snapshots, windows, clock, snapshotRows, forecastWindows,
                           speciesForecasts, alerts, safety_level, evaluated, budget, completed, clients>>

\* the per-pair "except Exception": logged, next pair
PerRaise ==
    /\ per.pc \in {"rc_read", "rc_commit", "tip"}
    /\ per' = [per EXCEPT !.pc = "loop", !.cur = PerIdle.cur, !.rc = NoRc]
    /\ UnchangedButPer

PerFinish ==
    /\ per.pc = "loop"
    /\ per.pairs = {}
    /\ per' = PerIdle
    /\ UnchangedButPer

\* ------------------------------------------------- the other scheduler jobs
UnchangedButJobs ==
    UNCHANGED <<catches, baitLogs, predatorLogs, seq, biteScores,
                baitScores, rigEffects, zoneCondEffects, rigCondEffects, tips,
                h, per, budget, completed, clients>>

\* the function a job id runs
JobFunc(j) ==
    IF j \in {"fetch_data", "fetch_data_startup"} THEN "fetch_all_data"
    ELSE "capture_environment"

\* a job added without a trigger runs once, at startup
IsStartupJob(j) == j \in {"fetch_data_startup", "capture_environment_startup"}

\* APScheduler starts a run of job j unless max_instances (1) runs of the
\* same job id are still going; the limit is per job id
MayStart(j) == jobs[j].pc = "idle"

JobFire(j) ==
    /\ MayStart(j)
    /\ jobs[j].fired < (IF IsStartupJob(j) THEN 1 ELSE MaxJobRuns)
    /\ jobs' = [jobs EXCEPT ![j].fired = @ + 1,
                            ![j].pc = IF JobFunc(j) = "fetch_all_data"
                                      THEN "tide" ELSE "check"]
    /\ UNCHANGED <<tide_stage, snapshots, windows, clock, snapshotRows, forecastWindows,
            speciesForecasts, alerts, safety_level, evaluated>>
    /\ UnchangedButJobs

FetchOrder == <<"tide", "weather", "astro", "watertemp", "obs", "fc_delete",
                "fc_insert", "alerts", "idle">>

NextFetchPc(pc) == FetchOrder[1 + CHOOSE i \in 1..(Len(FetchOrder) - 1) : FetchOrder[i] = pc]

\* one step of fetch_all_data; compute_forecasts deletes the windows of the
\* horizon and commits, then inserts the new ones and commits
FetchStep(j) ==
    /\ JobFunc(j) = "fetch_all_data"
    /\ jobs[j].pc \notin {"idle"}
    /\ jobs' = [jobs EXCEPT ![j].pc = NextFetchPc(jobs[j].pc)]
    /\ IF jobs[j].pc = "tide"
       THEN \E band \in TideBands : tide_stage' = band
       ELSE UNCHANGED tide_stage
    /\ windows' = CASE jobs[j].pc = "fc_delete" -> 0
                    [] jobs[j].pc = "fc_insert" -> windows + 1
                    [] OTHER -> windows
    /\ UNCHANGED <<snapshots, clock, snapshotRows, forecastWindows,
                           speciesForecasts, alerts, safety_level, evaluated>>
    /\ UnchangedButJobs

\* capture_environment_snapshot without the clock: skip when a snapshot exists
CaptureCheck(j) ==
    /\ JobFunc(j) = "capture_environment"
    /\ jobs[j].pc = "check"
    /\ jobs' = [jobs EXCEPT ![j].pc = IF snapshots > 0 THEN "idle" ELSE "write"]
    /\ UNCHANGED <<tide_stage, snapshots, windows, clock, snapshotRows, forecastWindows,
            speciesForecasts, alerts, safety_level, evaluated>>
    /\ UnchangedButJobs

CaptureWrite(j) ==
    /\ JobFunc(j) = "capture_environment"
    /\ jobs[j].pc = "write"
    /\ snapshots' = snapshots + 1
    /\ jobs' = [jobs EXCEPT ![j].pc = "idle"]
    /\ UNCHANGED <<tide_stage, windows, clock, snapshotRows, forecastWindows,
            speciesForecasts, alerts, safety_level, evaluated>>
    /\ UnchangedButJobs

\* ------------------------------------------------------------ specification
HandlerNext ==
    \E s \in Slots :
        \/ Dispatch(s)
        \/ LogCatchCommit(s)
        \/ LogCatchCommitFail(s)
        \/ LogCatchRig(s)
        \/ LogCatchZce(s)
        \/ LogCatchRce(s)
        \/ HRcBegin(s)
        \/ HRcRead(s)
        \/ HRcCommit(s)
        \/ LogCatchTip(s)
        \/ LogCatchTriggerRaise(s)
        \/ LogCatchRespond(s)
        \/ LogBaitCommit(s)
        \/ LogBaitScore(s)
        \/ LogBaitScoreRaise(s)
        \/ LogPredatorCommit(s)
        \/ LoopRecalcRaise(s)
        \/ GetZoneBiteScores(s)
        \/ GetRecalcRaise(s)
        \/ Respond(s)
        \/ DeleteLog(s)

PeriodicNext ==
    \/ PeriodicFire
    \/ PerRcBegin
    \/ PerRcRead
    \/ PerRcCommit
    \/ PerTip
    \/ PerRaise
    \/ PerFinish

JobsNext ==
    \E j \in JobIds :
        \/ JobFire(j)
        \/ FetchStep(j)
        \/ CaptureCheck(j)
        \/ CaptureWrite(j)

CatchNext ==
    \E s \in Slots :
        \/ DispatchCatch(s)
        \/ LogCatchCommit(s)
        \/ LogCatchCommitFail(s)
        \/ LogCatchRig(s)
        \/ LogCatchZce(s)
        \/ LogCatchRce(s)
        \/ HRcBegin(s)
        \/ HRcRead(s)
        \/ HRcCommit(s)
        \/ LogCatchTip(s)
        \/ LogCatchTriggerRaise(s)
        \/ LogCatchRespond(s)

\* request handlers and the periodic recalculation job, on a fresh database
Next == HandlerNext \/ PeriodicNext

Spec == Init /\ [][Next]_vars

\* catch events and the periodic job over a database that already holds a
\* cached row for the key: the row a first recompute with a raw score of 0
\* leaves behind
WarmRow == [id |-> 1, species |-> "speckled_trout", zone |-> "Zone 3",
            score |-> 0, rating |-> get_score_rating(0),
            confidence |-> get_confidence_level(0), last_updated |-> 0]

InitWarm == Boot({WarmRow}, MaxRequests, TRUE)

NextCatches == CatchNext \/ PeriodicNext

SpecWarm == InitWarm /\ [][NextCatches]_vars

\* catch events only
InitCatches == Boot({}, MaxCatchEvents, TRUE)

SpecCatches == InitCatches /\ [][CatchNext]_vars

\* the scheduler alone, started on a fresh database: its five jobs, no request
InitSched == Boot({}, 0, FALSE)

NextSched == PeriodicNext \/ JobsNext

SpecSched == InitSched /\ [][NextSched]_vars

\* catch events and catch deletions, one after the other, over a database
\* that holds the learning of earlier speckled_trout catches whose Catch rows
\* have been deleted since: 19 with a jig, 53 on an incoming tide
LearnPayloads ==
    {[HIdle EXCEPT !.type = "log_catch", !.species = "speckled_trout",
                   !.zone = "Zone 3", !.presentation = "jig"],
     [HIdle EXCEPT !.type = "log_catch", !.species = "blue_crab",
                   !.zone = "Zone 3", !.presentation = "crab_trap"]}
    \cup {[HIdle EXCEPT !.type = "delete_catch", !.target = id] : id \in {1, 2}}

DispatchLearn(s) == DispatchFrom(s, LearnPayloads)

LearnedRig == [id |-> 1, species |-> "speckled_trout", zone |-> "Zone 3",
               rig |-> "jig", success_count |-> 1900,
               weight |-> Min2(3000, LnMilli(1900)), last_used |-> 0]

LearnedZce == [id |-> 1, species |-> "speckled_trout", zone |-> "Zone 3",
               tide_band |-> "incoming", clarity_band |-> "clean",
               wind_band |-> "neutral", current_band |-> "low",
               success_count |-> 5300, weight |-> Min2(4000, LnMilli(5300))]

LearnedRce == [id |-> 1, species |-> "speckled_trout", rig |-> "jig",
               tide_band |-> "incoming", clarity_band |-> "clean",
               success_count |-> 5300, weight |-> Min2(4000, LnMilli(5300))]

InitLearn ==
    BootAll({}, {}, {LearnedRig}, {LearnedZce}, {LearnedRce}, MaxLearnEvents, TRUE)

LearnNext ==
    \E s \in Slots :
        \/ DispatchLearn(s)
        \/ LogCatchCommit(s)
        \/ LogCatchCommitFail(s)
        \/ LogCatchRig(s)
        \/ LogCatchZce(s)
        \/ LogCatchRce(s)
        \/ HRcBegin(s)
        \/ HRcRead(s)
        \/ HRcCommit(s)
        \/ LogCatchTip(s)
        \/ LogCatchTriggerRaise(s)
        \/ LogCatchRespond(s)
        \/ DeleteLog(s)

SpecLearn == InitLearn /\ [][LearnNext]_vars

\* recalculate_bite_score called twice in a row for one key by one caller,
\* under the same conditions, over a database that holds no row or one row
\* for the key and up to MaxOldCatches catches of the key
OldScores == {50 * k : k \in 0..20}

OldRow(score) == [WarmRow EXCEPT !.score = score, !.rating = get_score_rating(score)]

OldCatch(id) == [id |-> id, species |-> "speckled_trout", zone |-> "Zone 3",
                 rig |-> "jig", recent |-> TRUE]

InitTwice ==
    \E k \in 0..MaxOldCatches, rows \in {{}} \cup {{OldRow(sc)} : sc \in OldScores} :
        BootAll({OldCatch(id) : id \in 1..k}, rows, {}, {}, {}, 0, TRUE)

\* one call, from STEP A to the commit; the second call finds the conditions
\* of the first, so the same raw score
RecomputeCall ==
    /\ per.pc \in {"idle", "once"}
    /\ CanScore("speckled_trout")
    /\ \E rawsum \in RawSums,
          row \in FirstCandidates(RowsOf(biteScores, "speckled_trout", "Zone 3")) :
         LET rc == [RecalcLoad("speckled_trout", "Zone 3", rawsum) EXCEPT !.old = row]
         IN /\ per.pc = "once" => rc.raw = per.rc.raw
            /\ biteScores' = RecalcWrite(rc)
            /\ per' = [per EXCEPT !.pc = IF per.pc = "idle" THEN "once" ELSE "twice",
                                   !.rc = rc]
    /\ UNCHANGED <<catches, baitLogs, predatorLogs, seq, baitScores,
                   rigEffects, zoneCondEffects, rigCondEffects, tips, h, jobs,
                   tide_stage, snapshots, windows, clock, snapshotRows, forecastWindows,
                           speciesForecasts, alerts, safety_level, evaluated, budget, completed, clients>>

SpecTwice == InitTwice /\ [][RecomputeCall]_vars

\* catch events as clients send them, one after the other, on a fresh
\* database or on one with the environment captured: a body that carries
\* the rig under the key "rig_type", a zone that does not exist, a species
\* the application does not know
InputBodies ==
    {[HIdle EXCEPT !.type = "log_catch", !.species = "speckled_trout",
                   !.zone = "Zone 3", !.body_rig_type = "jig"],
     [HIdle EXCEPT !.type = "log_catch", !.species = "speckled_trout",
                   !.zone = "Zone 9", !.presentation = "jig"],
     [HIdle EXCEPT !.type = "log_catch", !.species = "tarpon",
                   !.zone = "Zone 3", !.presentation = "jig"]}

DispatchInput(s) == DispatchFrom(s, InputBodies)

InitInputs == \E env \in BOOLEAN : Boot({}, MaxInputEvents, env)

InputNext ==
    \E s \in Slots :
        \/ DispatchInput(s)
        \/ LogCatchCommit(s)
        \/ LogCatchCommitFail(s)
        \/ LogCatchRig(s)
        \/ LogCatchZce(s)
        \/ LogCatchRce(s)
        \/ HRcBegin(s)
        \/ HRcRead(s)
        \/ HRcCommit(s)
        \/ LogCatchTip(s)
        \/ LogCatchTriggerRaise(s)
        \/ LogCatchRespond(s)

SpecInputs == InitInputs /\ [][InputNext]_vars

\* the request handlers alone, one request after the other
InitServe == Boot({}, MaxServeEvents, TRUE)

SpecServe == InitServe /\ [][HandlerNext]_vars

\* catch events of one key with two rigs, one after the other
RigPayloads ==
    {[HIdle EXCEPT !.type = "log_catch", !.species = "speckled_trout",
                   !.zone = "Zone 3", !.presentation = rig] :
        rig \in {"jig", "popping_cork"}}

DispatchRigs(s) == DispatchFrom(s, RigPayloads)

InitRigs == Boot({}, MaxRigEvents, TRUE)

RigsNext ==
    \E s \in Slots :
        \/ DispatchRigs(s)
        \/ LogCatchCommit(s)
        \/ LogCatchCommitFail(s)
        \/ LogCatchRig(s)
        \/ LogCatchZce(s)
        \/ LogCatchRce(s)
        \/ HRcBegin(s)
        \/ HRcRead(s)
        \/ HRcCommit(s)
        \/ LogCatchTip(s)
        \/ LogCatchTriggerRaise(s)
        \/ LogCatchRespond(s)

SpecRigs == InitRigs /\ [][RigsNext]_vars

\* ------------------------------------------- calculate_predator_modifier
\* minutes of the lookback window of calculate_predator_modifier
PredatorLookback == 240

\* tenths of a point of the full predator penalty
PredatorFullPenalty == 80

is_prey_species(species) ==
    species \in {"speckled_trout", "white_trout", "menhaden", "mullet",
                 "live_shrimp"}

\* the query has only the lower bound cutoff; decay_factor is
\* max(0.0, 1.0 - hours_ago / 4.0), here times PredatorLookback
calculate_predator_modifier(logs, species, zone_id, now) ==
    IF ~is_prey_species(species) THEN 0
    ELSE LET recent_predators ==
                 {p \in logs : p.zone = zone_id /\ p.time >= now - PredatorLookback}
         IN  IF recent_predators = {} THEN 0
             ELSE LET most_recent == CHOOSE p \in recent_predators :
                                         \A q \in recent_predators : q.time <= p.time
                      minutes_ago == now - most_recent.time
                      decay == Max2(0, PredatorLookback - minutes_ago)
                  IN  0 - ((PredatorFullPenalty * decay) \div PredatorLookback)

\* predator_penalty of calculate_zone_bite_score: the modifier in the Tier 1
\* branch, 0.0 in the Tier 2 branch
predator_penalty(logs, species, zone_id, now) ==
    IF species \in SeqRange(TIER_1_SPECIES)
    THEN calculate_predator_modifier(logs, species, zone_id, now)
    ELSE 0

\* what one scoring of a pair computes, with the stored sightings of the zone
ScoreRecord(logs, species, zone_id) ==
    [species |-> species, zone |-> zone_id, now |-> clock,
     logs |-> {p \in logs : p.zone = zone_id},
     predator_modifier |-> calculate_predator_modifier(logs, species, zone_id, clock),
     predator_penalty |-> predator_penalty(logs, species, zone_id, clock)]

\* log_predator with a time in the body: the row is stored with that time and
\* the four prey species of the zone are scored again
LogPredatorAt(zone_id, time) ==
    /\ seq.pred <= MaxSightings
    /\ LET logs == predatorLogs \cup
                     {[id |-> seq.pred, zone |-> zone_id, time |-> time]}
       IN  /\ predatorLogs' = logs
           /\ evaluated' = {ScoreRecord(logs, sp, zone_id) :
                              sp \in SeqRange(LogPredatorPreySpecies)}
    /\ seq' = [seq EXCEPT !.pred = @ + 1]
    /\ UNCHANGED <<catches, baitLogs, biteScores, baitScores, rigEffects,
                   zoneCondEffects, rigCondEffects, tips, h, per, jobs,
                   tide_stage, snapshots, windows, clock, snapshotRows,
                   forecastWindows, speciesForecasts, alerts, safety_level,
                   budget, completed, clients>>

\* calculate_zone_bite_score of any later scoring of a pair
ScoreZone(species, zone_id) ==
    /\ evaluated' = {ScoreRecord(predatorLogs, species, zone_id)}
    /\ UNCHANGED <<catches, baitLogs, predatorLogs, seq, biteScores, baitScores,
                   rigEffects, zoneCondEffects, rigCondEffects, tips, h, per,
                   jobs, tide_stage, snapshots, windows, clock, snapshotRows,
                   forecastWindows, speciesForecasts, alerts, safety_level,
                   budget, completed, clients>>

\* sightings posted with times on the hour, before and after utcnow, and
\* scorings of prey and other species
SpecPredator ==
    /\ Boot({}, 0, TRUE)
    /\ [][\/ \E zn \in {"Zone 3", "Zone 4"},
                t \in {60 * k : k \in (0 - MaxSightingAge)..MaxSightingAhead} :
                  LogPredatorAt(zn, t)
          \/ \E sp \in {"speckled_trout", "white_trout", "menhaden", "mullet",
                        "shrimp", "live_shrimp", "redfish"},
                zn \in {"Zone 3", "Zone 4"} :
                  ScoreZone(sp, zn)]_vars

\* ----------------------------------------- capture_environment, with time
\* minutes of the recent-snapshot check, of the capture interval, and days of
\* retention
RecentMinutes == 5
CaptureInterval == 10
RetentionDays == 30

\* a capture that never finds a recent snapshot
recent_snapshot_unchecked(rows, now) == rows # rows

\* the query of capture_environment_snapshot: has only the lower bound cutoff
recent_snapshot(rows, now) ==
    \E r \in rows : r.timestamp >= now - RecentMinutes

\* the rows that cleanup_old_snapshots leaves; no job and no handler calls it
cleanup_old_snapshots(rows, now) ==
    {r \in rows : ~(r.timestamp < now - RetentionDays * 24 * 60)}

UnchangedButTimed ==
    UNCHANGED <<catches, baitLogs, predatorLogs, seq, biteScores, baitScores,
                rigEffects, zoneCondEffects, rigCondEffects, tips, h, per,
                tide_stage, snapshots, windows, safety_level, evaluated,
                budget, completed, clients>>

UnchangedButCapture ==
    /\ UNCHANGED <<forecastWindows, speciesForecasts, alerts>>
    /\ UnchangedButTimed

\* time passes
Tick(minutes, limit) ==
    /\ clock + minutes <= limit
    /\ clock' = clock + minutes
    /\ UNCHANGED <<jobs, snapshotRows>>
    /\ UnchangedButCapture

\* the scheduler starts a job: a startup job when the scheduler starts, an
\* interval job at each multiple of its interval after that, each with at most
\* one instance; the job function reads utcnow first
TimedFire(j, interval) ==
    /\ jobs[j].pc = "idle"
    /\ IF IsStartupJob(j)
       THEN clock = 0 /\ jobs[j].fired = 0
       ELSE /\ clock > 0 /\ clock % interval = 0
            /\ jobs[j].fired < clock \div interval
    /\ jobs' = [jobs EXCEPT ![j] =
                  [pc |-> IF JobFunc(j) = "fetch_all_data" THEN "tide" ELSE "check",
                   now |-> clock, start_time |-> 0, attempted |-> {},
                   failed |-> FALSE,
                   fired |-> IF IsStartupJob(j) THEN 1 ELSE clock \div interval]]
    /\ UNCHANGED <<clock, snapshotRows>>
    /\ UnchangedButCapture

CaptureQuery(j) ==
    /\ JobFunc(j) = "capture_environment"
    /\ jobs[j].pc = "check"
    /\ jobs' = [jobs EXCEPT ![j].pc =
                  IF recent_snapshot(snapshotRows, jobs[j].now)
                  THEN "idle" ELSE "add"]
    /\ UNCHANGED <<clock, snapshotRows>>
    /\ UnchangedButCapture

\* db.add(snapshot); db.commit(), after the conditions were read
CaptureCommit(j) ==
    /\ JobFunc(j) = "capture_environment"
    /\ jobs[j].pc = "add"
    /\ snapshotRows' = snapshotRows \cup
         {[id |-> NextRowId(snapshotRows), timestamp |-> jobs[j].now]}
    /\ jobs' = [jobs EXCEPT ![j].pc = "idle"]
    /\ UNCHANGED clock
    /\ UnchangedButCapture

\* the database of an earlier run of the program: at most one snapshot of the
\* last minutes and at most one older than the retention
InitCapture ==
    \E expired \in SUBSET {[id |-> 1,
                            timestamp |-> 0 - (RetentionDays * 24 * 60 + 1)]} :
        \E recent \in SUBSET {[id |-> NextRowId(expired), timestamp |-> 0 - a] :
                                a \in 0..MaxRowAge} :
            /\ Cardinality(recent) <= 1
            /\ BootRows({}, {}, {}, {}, {}, 0, FALSE, recent \cup expired, "SAFE")

NextCapture ==
    \/ Tick(1, MaxClock)
    \/ \E j \in JobIds :
          \/ JobFunc(j) = "capture_environment" /\ TimedFire(j, CaptureInterval)
          \/ CaptureQuery(j)
          \/ CaptureCommit(j)

\* the scheduler thread and its workers keep running
SpecCapture == InitCapture /\ [][NextCapture]_vars /\ WF_vars(NextCapture)

\* ------------------------------------- compute_forecasts and _update_alerts
\* minutes between two runs of the interval job, hours of a window, hours the
\* alert evaluation looks ahead; tenths of a point of the alert threshold of a
\* species and of the marine penalties
FetchInterval == 30
WindowHours == 2
AlertHours == 12
AlertThreshold == 800
UnsafePenalty == 300
CautionPenalty == 150

apply_safety_penalty(bite_score, level, safety_score) ==
    CASE level = "UNSAFE" -> bite_score - UnsafePenalty
      [] level = "CAUTION" ->
           bite_score - (IF safety_score < 50 THEN CautionPenalty
                         ELSE (CautionPenalty * (80 - safety_score)) \div 30)
      [] OTHER -> bite_score

\* total_score is running_factor * env_score * 100, in tenths; level "" is
\* the default None of the parameter
calculate_bite_score(total_score, level, safety_score) ==
    ClampScore(IF level # "" THEN apply_safety_penalty(total_score, level, safety_score)
               ELSE total_score)

\* a delete that leaves the per-species rows of the deleted windows in place
delete_orphan_none(forecasts, old_windows) == forecasts

\* cascade="all, delete-orphan" of ForecastWindow.species_forecasts
delete_orphan(forecasts, old_windows) ==
    {f \in forecasts : ~\E w \in old_windows : w.id = f.window_id}

\* the five fetch steps before compute_forecasts: each catches its own
\* exceptions and returns, whether it worked or not
FetchSource(j) ==
    /\ JobFunc(j) = "fetch_all_data"
    /\ jobs[j].pc \in {"tide", "weather", "astro", "watertemp", "obs"}
    /\ \E ok \in BOOLEAN :
          jobs' = [jobs EXCEPT ![j].pc = NextFetchPc(jobs[j].pc),
                               ![j].attempted = @ \cup {jobs[j].pc},
                               ![j].failed = @ \/ ~ok]
    /\ UNCHANGED <<clock, snapshotRows, forecastWindows, speciesForecasts, alerts>>
    /\ UnchangedButTimed

\* compute_forecasts up to its first commit: the windows of the horizon are
\* deleted; an exception rolls back and returns False
ForecastDelete(j) ==
    /\ JobFunc(j) = "fetch_all_data"
    /\ jobs[j].pc = "fc_delete"
    /\ LET start_time == 60 * (clock \div 60)
           old_windows ==
               {w \in forecastWindows :
                   /\ w.start_time >= start_time
                   /\ w.start_time <= start_time + 60 * HoursAhead}
       IN  \E ok \in BOOLEAN :
             IF ok
             THEN /\ forecastWindows' = forecastWindows \ old_windows
                  /\ speciesForecasts' = delete_orphan(speciesForecasts, old_windows)
                  /\ jobs' = [jobs EXCEPT ![j].pc = "fc_insert",
                                          ![j].start_time = start_time,
                                          ![j].attempted = @ \cup {"forecast"}]
             ELSE /\ UNCHANGED <<forecastWindows, speciesForecasts>>
                  /\ jobs' = [jobs EXCEPT ![j].pc = "idle",
                                          ![j].failed = TRUE,
                                          ![j].attempted = @ \cup {"forecast"}]
    /\ UNCHANGED <<clock, snapshotRows, alerts>>
    /\ UnchangedButTimed

\* the loop over the windows and the second commit; the score of each species
\* is calculate_bite_score(species, running_factor, conditions), without a
\* safety level
ForecastInsert(j) ==
    /\ JobFunc(j) = "fetch_all_data"
    /\ jobs[j].pc = "fc_insert"
    /\ LET starts == {jobs[j].start_time + 60 * i :
                        i \in {k \in 0..(HoursAhead - 1) : k % WindowHours = 0}}
           last_id == IF forecastWindows = {} THEN 0
                      ELSE CHOOSE n \in {w.id : w \in forecastWindows} :
                               \A w \in forecastWindows : w.id <= n
           id_of(s) == last_id + 1 + (s - jobs[j].start_time) \div (60 * WindowHours)
       IN  \/ \E total \in [starts -> {500, 900}] :
                  /\ forecastWindows' = forecastWindows \cup
                       {[id |-> id_of(s), start_time |-> s,
                         end_time |-> s + 60 * WindowHours] : s \in starts}
                  /\ speciesForecasts' = speciesForecasts \cup
                       {[window_id |-> id_of(s), species |-> "speckled_trout",
                         total_score |-> total[s], safety |-> safety_level,
                         bite_score |-> calculate_bite_score(total[s], "", 0)] :
                          s \in starts}
                  /\ jobs' = [jobs EXCEPT ![j].pc = "alerts"]
           \* an exception in the loop or in the commit: rollback, return False
           \/ /\ UNCHANGED <<forecastWindows, speciesForecasts>>
              /\ jobs' = [jobs EXCEPT ![j].pc = "idle", ![j].failed = TRUE]
    /\ UNCHANGED <<clock, snapshotRows, alerts>>
    /\ UnchangedButTimed

\* _update_alerts, one transaction: every active alert is deactivated, then
\* an alert is added for each species of each upcoming window at or above
\* the threshold that has no active alert by then
UpdateAlerts(j) ==
    /\ JobFunc(j) = "fetch_all_data"
    /\ jobs[j].pc = "alerts"
    /\ LET windows_ahead ==
               {w \in forecastWindows :
                   /\ w.start_time >= clock
                   /\ w.start_time <= clock + 60 * AlertHours}
           hot == {w \in windows_ahead :
                      \E f \in speciesForecasts :
                          /\ f.window_id = w.id
                          /\ f.bite_score >= AlertThreshold}
           first == {w \in hot : ~\E v \in hot : /\ v.start_time = w.start_time
                                                 /\ v.id < w.id}
           rank(w) == Cardinality({v \in first : v.start_time <= w.start_time})
       IN  \E ok \in BOOLEAN :
             alerts' = IF ok
                       THEN {[a EXCEPT !.is_active = FALSE] : a \in alerts} \cup
                            {[id |-> Cardinality(alerts) + rank(w),
                              species |-> "speckled_trout",
                              window_start |-> w.start_time,
                              window_end |-> w.end_time,
                              is_active |-> TRUE] : w \in first}
                       ELSE alerts
    /\ jobs' = [jobs EXCEPT ![j].pc = "idle",
                            ![j].attempted = @ \cup {"alerts"}]
    /\ UNCHANGED <<clock, snapshotRows, forecastWindows, speciesForecasts>>
    /\ UnchangedButTimed

NextForecast ==
    \/ Tick(FetchInterval, FetchInterval * MaxFetchTicks)
    \/ \E j \in JobIds :
          \/ JobFunc(j) = "fetch_all_data" /\ TimedFire(j, FetchInterval)
          \/ FetchSource(j)
          \/ ForecastDelete(j)
          \/ ForecastInsert(j)
          \/ UpdateAlerts(j)

\* an empty database and any marine safety level; the scheduler thread and
\* its workers keep running
SpecForecast ==
    /\ \E level \in {"SAFE", "UNSAFE"} :
          BootRows({}, {}, {}, {}, {}, 0, FALSE, {}, level)
    /\ [][NextForecast]_vars
    /\ WF_vars(NextForecast)

\* ------------------------------ the smoothing of recalculate_bite_score
\* STEP E for a catch count, a prior row or none, a raw score and a
\* force_recalc; the record keeps the count and the weight of the call
\* before, and calls are taken in pairs
SmoothCall(total_catches, old, rawsum, force) ==
    /\ \A e \in evaluated : e.before = {}
    /\ LET rc == [NoRc EXCEPT !.species = "speckled_trout", !.zone = "Zone 3",
                               !.N = total_catches, !.old = old,
                               !.raw = calculate_zone_bite_score(rawsum),
                               !.force = force]
       IN  evaluated' =
             {[rc |-> rc, weight |-> get_smoothing_weight(total_catches),
               new_score |-> RecalcNewScore(rc),
               before |-> {[N |-> e.rc.N, weight |-> e.weight] : e \in evaluated}]}
    /\ UNCHANGED <<catches, baitLogs, predatorLogs, seq, biteScores, baitScores,
                   rigEffects, zoneCondEffects, rigCondEffects, tips, h, per,
                   jobs, tide_stage, snapshots, windows, clock, snapshotRows,
                   forecastWindows, speciesForecasts, alerts, safety_level,
                   budget, completed, clients>>

SpecSmooth ==
    /\ Boot({}, 0, TRUE)
    /\ [][\E n \in 0..MaxCatchCount,
             old \in {NoRow, OldRow(350)},
             rawsum \in RawSums, force \in BOOLEAN :
               SmoothCall(n, old, rawsum, force)]_vars

\* ------------------------------ log_catch with update_rig_effect in two
\* steps, the query of the RigEffect row and the commit of what the ORM
\* computed from it
RigQuery(s) ==
    /\ h[s].type = "log_catch" /\ h[s].pc = "rig"
    /\ IF h[s].rig \in {"", "unknown"}
       THEN h' = [h EXCEPT ![s].pc = "zce", ![s].log = Append(@, "rig")]
       ELSE \E row \in FirstCandidates({r \in RowsOf(rigEffects, h[s].species, h[s].zone) :
                                          r.rig = h[s].rig}) :
                h' = [h EXCEPT ![s].pc = "rig_commit", ![s].rc.old = row]
    /\ UnchangedButHandler

\* UPDATE ... SET success_count = <the count read + 1> WHERE id = <row>, or
\* the INSERT of a row with count 1 when the query found none
RigCommit(s) ==
    /\ h[s].type = "log_catch" /\ h[s].pc = "rig_commit"
    /\ LET old == h[s].rc.old
           cnt == IF old.id # 0 THEN old.success_count + 100 ELSE 100
           new == [id |-> IF old.id # 0 THEN old.id ELSE NextRowId(rigEffects),
                   species |-> h[s].species, zone |-> h[s].zone, rig |-> h[s].rig,
                   success_count |-> cnt, weight |-> Min2(3000, LnMilli(cnt)),
                   last_used |-> Now]
       IN  rigEffects' = {r \in rigEffects : r.id # new.id} \cup {new}
    /\ h' = [h EXCEPT ![s].pc = "zce", ![s].rc = NoRc, ![s].log = Append(@, "rig")]
    /\ UNCHANGED <<catches, baitLogs, predatorLogs, seq, biteScores,
                   baitScores, zoneCondEffects, rigCondEffects, tips, per, jobs,
                   tide_stage, snapshots, windows, clock, snapshotRows,
                   forecastWindows, speciesForecasts, alerts, safety_level,
                   evaluated, budget, completed, clients>>

SpecRace ==
    /\ InitCatches
    /\ [][\E s \in Slots :
            \/ DispatchCatch(s)
            \/ LogCatchCommit(s)
            \/ LogCatchCommitFail(s)
            \/ RigQuery(s)
            \/ RigCommit(s)
            \/ LogCatchZce(s)
            \/ LogCatchRce(s)
            \/ HRcBegin(s)
            \/ HRcRead(s)
            \/ HRcCommit(s)
            \/ LogCatchTip(s)
            \/ LogCatchTriggerRaise(s)
            \/ LogCatchRespond(s)]_vars

\* ------------------------------ the periodic job over a database that
\* holds activity of the last 6 hours in zones 3 and 4
\* the cached rows of the two pairs; the activity keeps arriving, so each
\* run of the job finds it inside its lookback
InitActive ==
    \E cs \in SUBSET {[id |-> 1, species |-> "speckled_trout", zone |-> "Zone 4",
                         rig |-> "jig", recent |-> TRUE]},
       ps \in SUBSET {[id |-> 1, zone |-> "Zone 4", recent |-> TRUE]},
       bs \in SUBSET {[id |-> 1, species |-> "live_shrimp", zone |-> "Zone 3",
                         recent |-> TRUE]} :
        /\ catches = cs
        /\ baitLogs = bs
        /\ predatorLogs = ps
        /\ seq = [catch |-> 1 + Cardinality(cs), bait |-> 1 + Cardinality(bs),
                  pred |-> 1 + Cardinality(ps)]
        /\ biteScores = {WarmRow, [WarmRow EXCEPT !.id = 2, !.zone = "Zone 4"]}
        /\ baitScores = {}
        /\ rigEffects = {}
        /\ zoneCondEffects = {}
        /\ rigCondEffects = {}
        /\ tips = {}
        /\ h = [s \in Slots |-> HIdle]
        /\ per = PerIdle
        /\ jobs = [j \in JobIds |-> [pc |-> "idle", fired |-> 0]]
        /\ tide_stage = "incoming"
        /\ snapshots = 1
        /\ windows = 0
        /\ clock = 0
        /\ snapshotRows = {}
        /\ forecastWindows = {}
        /\ speciesForecasts = {}
        /\ alerts = {}
        /\ safety_level = "SAFE"
        /\ evaluated = {}
        /\ budget = [req |-> 0, per |-> 0]
        /\ completed = {}
        /\ clients = ClientsIdle

\* the interval trigger fires every 30 minutes for as long as the scheduler
\* runs; a firing while the previous run is still going is skipped
PeriodicTick ==
    /\ per.pc = "idle"
    /\ per' = [PerIdle EXCEPT !.pc = "loop", !.pairs = PairsToRecalc]
    /\ UnchangedButPer

NextActive ==
    \/ PeriodicTick
    \/ PerRcBegin
    \/ PerRcRead
    \/ PerRcCommit
    \/ PerTip
    \/ PerRaise
    \/ PerFinish

SpecActive == InitActive /\ [][NextActive]_vars /\ WF_vars(NextActive)

\* ------------------------------ the recent-activity modifier of a pair
\* recent_activity_weight of the confidence of a pair with `count` catches,
\* in tenths
calculate_species_zone_confidence(count) ==
    IF count < 10 THEN 3 ELSE IF count < 50 THEN 6 ELSE 10

\* 0.75 ^ hours_ago, in thousandths, for whole hours
DecayFactor(hours_ago) ==
    CASE hours_ago = 0 -> 1000 [] hours_ago = 1 -> 750 [] hours_ago = 2 -> 562
      [] hours_ago = 3 -> 421 [] hours_ago = 4 -> 316 [] hours_ago = 5 -> 237
      [] hours_ago = 6 -> 177 [] OTHER -> 133

RECURSIVE ActivitySum(_)
ActivitySum(rows) ==
    IF rows = {} THEN 0
    ELSE LET c == CHOOSE x \in rows : TRUE
         IN  ActivityBase * DecayFactor(c.hours_ago) * c.quantity
             + ActivitySum(rows \ {c})

\* the modifier in thousandths of a point: the decayed sum over the catches
\* of the lookback, times the confidence weight, capped at +10
calculate_recent_activity_modifier(rows, weight) ==
    LET recent_catches == {c \in rows : c.hours_ago <= ActivityLookback}
        score == (ActivitySum(recent_catches) * weight) \div 10
    IN  Min2(10000, score)

\* the modifier of a pair that has `older` catches from before the lookback
\* and the catches `rows`
ScoreActivity(rows, older) ==
    /\ LET count == older + Cardinality(rows)
           confidence == calculate_species_zone_confidence(count)
       IN  evaluated' = {[rows |-> rows, count |-> count, weight |-> confidence,
                          recent_activity |->
                              calculate_recent_activity_modifier(rows, confidence)]}
    /\ UNCHANGED <<catches, baitLogs, predatorLogs, seq, biteScores, baitScores,
                   rigEffects, zoneCondEffects, rigCondEffects, tips, h, per,
                   jobs, tide_stage, snapshots, windows, clock, snapshotRows,
                   forecastWindows, speciesForecasts, alerts, safety_level,
                   budget, completed, clients>>

SpecRecent ==
    /\ Boot({}, 0, TRUE)
    /\ [][\E ids \in SUBSET (1..MaxRecentCatches),
             age \in [1..MaxRecentCatches -> {0, 1, 5, 7}],
             quantity \in [1..MaxRecentCatches -> {1, 3}],
             older \in {0, 8, 9, 48, 49} :
               ScoreActivity({[id |-> i, hours_ago |-> age[i],
                               quantity |-> quantity[i]] : i \in ids}, older)]_vars

\* ------------------------------ the water-temperature and the weather
\* observation client
\* CACHE_DURATION_MINUTES of each client
CacheDuration(c) == IF c = "water_temp" THEN 30 ELSE 15

\* get_water_temperature / get_weather_observations: the cached value while
\* it is younger than the cache duration; else the primary station, then the
\* backup station; a result is cached and returned, and when both stations
\* fail the old cached value, if any, is returned as it is
GetCached(c) ==
    /\ LET st == clients[c]
       IN  IF st.cached # NoValue /\ clock - st.cache_timestamp < CacheDuration(c)
           THEN clients' = [clients EXCEPT ![c].returned = st.cached,
                                           ![c].outcome = "cached"]
           ELSE \E primary \in BOOLEAN, backup \in BOOLEAN, reading \in {68, 72} :
                  LET result ==
                        IF primary
                        THEN [reading |-> reading, station_id |-> "primary",
                              timestamp |-> clock]
                        ELSE IF backup
                        THEN [reading |-> reading, station_id |-> "backup",
                              timestamp |-> clock]
                        ELSE NoValue
                  IN  IF result # NoValue
                      THEN clients' = [clients EXCEPT ![c].cached = result,
                                                      ![c].cache_timestamp = clock,
                                                      ![c].returned = result,
                                                      ![c].outcome = "fresh"]
                      ELSE clients' = [clients EXCEPT
                                          ![c].returned = st.cached,
                                          ![c].outcome = IF st.cached # NoValue
                                                         THEN "stale" ELSE "none"]
    /\ UNCHANGED <<catches, baitLogs, predatorLogs, seq, biteScores, baitScores,
                   rigEffects, zoneCondEffects, rigCondEffects, tips, h, per,
                   jobs, tide_stage, snapshots, windows, clock, snapshotRows,
                   forecastWindows, speciesForecasts, alerts, safety_level,
                   evaluated, budget, completed>>

SpecClients ==
    /\ Boot({}, 0, TRUE)
    /\ [][\/ Tick(CaptureInterval, MaxClientClock)
          \/ \E c \in DOMAIN clients : GetCached(c)]_vars

\* ------------------------------ the zone recommendation
\* points a species adds to a zone, per unit of tier weight
SpeciesZonePoints(species, zone) ==
    CASE species \in {"sheepshead", "tripletail"} ->
             (CASE zone = 1 -> 2 [] zone = 3 -> 3 [] zone = 5 -> 4 [] OTHER -> 0)
      [] species \in {"flounder", "black_drum"} ->
             (CASE zone = 1 -> 3 [] zone = 4 -> 2 [] zone = 5 -> 2 [] OTHER -> 0)
      [] species = "speckled_trout" ->
             (CASE zone = 2 -> 1 [] zone = 3 -> 3 [] zone = 4 -> 2 [] OTHER -> 0)
      [] species = "redfish" ->
             (CASE zone = 1 -> 3 [] zone = 2 -> 2 [] zone = 3 -> 2 [] OTHER -> 0)
      [] species \in {"white_trout", "croaker", "jack_crevalle", "mackerel", "shark"} ->
             (CASE zone = 4 -> 2 [] zone = 5 -> 3 [] OTHER -> 0)
      [] species = "mullet" ->
             (CASE zone = 1 -> 2 [] zone = 2 -> 3 [] OTHER -> 0)
      [] species = "blue_crab" ->
             (CASE zone = 1 -> 2 [] zone = 3 -> 3 [] zone = 5 -> 2 [] OTHER -> 0)
      [] OTHER -> (CASE zone = 3 -> 2 [] zone = 4 -> 2 [] OTHER -> 0)

TierWeight(tier) == IF tier = "HOT" THEN 3 ELSE IF tier = "DECENT" THEN 2 ELSE 1

RECURSIVE SpeciesPoints(_, _)
SpeciesPoints(top_species_list, zone) ==
    IF top_species_list = <<>> THEN 0
    ELSE TierWeight(Head(top_species_list).tier)
             * SpeciesZonePoints(Head(top_species_list).key, zone)
         + SpeciesPoints(Tail(top_species_list), zone)

\* zone_scores before the sort
ZoneScore(zone, top_species_list, tide_state, clarity, time_of_day, cold_north_penalty) ==
    (IF zone \in {3, 4} THEN 2 ELSE 0)
    + SpeciesPoints(SubSeq(top_species_list, 1, Min2(3, Len(top_species_list))), zone)
    + (IF tide_state = "rising"
       THEN (CASE zone \in {1, 2} -> 3 [] zone = 3 -> 1 [] OTHER -> 0)
       ELSE IF tide_state = "falling"
       THEN (IF zone \in {4, 5} THEN 2 ELSE 0)
       ELSE 0)
    + (IF clarity = "Clear"
       THEN (CASE zone = 4 -> 1 [] zone = 5 -> 2 [] OTHER -> 0)
       ELSE IF clarity = "Muddy"
       THEN (IF zone \in {1, 3} THEN 1 ELSE 0)
       ELSE 0)
    + (IF time_of_day \in {"evening", "night"} /\ zone = 4 THEN 4 ELSE 0)
    + (IF cold_north_penalty
       THEN (CASE zone = 1 -> -3 [] zone = 2 -> -4 [] zone = 4 -> 2
               [] zone = 5 -> 3 [] OTHER -> 0)
       ELSE 0)

\* the zones of positive score in descending order of score, equal scores in
\* ascending zone number (the sort is stable), the first three of them
get_best_zones_now(top_species_list, tide_state, clarity, time_of_day, cold_north_penalty) ==
    LET score(z) == ZoneScore(z, top_species_list, tide_state, clarity,
                              time_of_day, cold_north_penalty)
        positive == {z \in 1..5 : score(z) > 0}
        ahead(y, z) == score(y) > score(z) \/ (score(y) = score(z) /\ y < z)
        at(i) == CHOOSE z \in positive :
                     Cardinality({y \in positive : ahead(y, z)}) = i - 1
    IN  [i \in 1..Min2(3, Cardinality(positive)) |-> at(i)]

\* the species of a top-species list are different
TopSpeciesLists ==
    {q \in UNION {[1..n -> [key : TopSpeciesKeys, tier : {"HOT", "SLOW"}]] :
                    n \in 0..MaxTopSpecies} :
        \A i \in 1..Len(q), j \in 1..Len(q) : i # j => q[i].key # q[j].key}

\* one recommendation
RankZones ==
    /\ evaluated = {}
    /\ \E top_species_list \in TopSpeciesLists,
          tide_state \in {"rising", "falling", "slack"},
          clarity \in {"Clear", "Muddy", "Stained"},
          time_of_day \in {"morning", "night"},
          cold_north_penalty \in BOOLEAN :
         evaluated' =
           {[top_species_list |-> top_species_list, tide_state |-> tide_state,
             clarity |-> clarity, time_of_day |-> time_of_day,
             cold_north_penalty |-> cold_north_penalty,
             zones |-> get_best_zones_now(top_species_list, tide_state, clarity,
                                          time_of_day, cold_north_penalty)]}
    /\ UNCHANGED <<catches, baitLogs, predatorLogs, seq, biteScores, baitScores,
                   rigEffects, zoneCondEffects, rigCondEffects, tips, h, per,
                   jobs, tide_stage, snapshots, windows, clock, snapshotRows,
                   forecastWindows, speciesForecasts, alerts, safety_level,
                   budget, completed, clients>>

SpecZones == Boot({}, 0, TRUE) /\ [][RankZones]_vars

\* ------------------------------------------------------------- properties
\* C1: when a step after the Catch commit of log_catch has raised, the Catch
\* row is still stored and the handler returns success.
C1_RaiseStillSucceeds ==
    \A s \in Slots :
        (h[s].type = "log_catch" /\ h[s].raised) =>
            /\ \E c \in catches : c.id = h[s].catchId
            /\ h[s].pc = "done" => h[s].response = "success"

\* a log_catch whose trigger raised has returned success, its row stored
C1_Witness ==
    \E s \in Slots :
        /\ h[s].type = "log_catch" /\ h[s].raised
        /\ h[s].pc = "done" /\ h[s].response = "success"
        /\ \E c \in catches : c.id = h[s].catchId

\* C2: after a catch event whose triggers all ran, the key has a BiteScore
\* row with last_updated at or after the moment the catch was persisted.
C2_FreshAfterCatch ==
    \A e \in completed :
        \E r \in RowsOf(biteScores, e.species, e.zone) :
            r.last_updated >= e.persistedAt

\* C3: the periodic job and a request handler are never both between the
\* read of the old cached row of one key and the commit of its recompute.
C3_NoOverlap ==
    \A s \in Slots :
        ~ /\ per.pc = "rc_commit"
          /\ h[s].pc = "rc_commit"
          /\ per.rc.species = h[s].rc.species
          /\ per.rc.zone = h[s].rc.zone

\* C4: there is at most one BiteScore row for each (species, zone_id).
C4_UniqueKey ==
    \A r1 \in biteScores, r2 \in biteScores :
        (r1.species = r2.species /\ r1.zone = r2.zone) => r1.id = r2.id

\* C5: the cache-row updates of catch events are serialized: while the
\* recompute of a catch event holds the old row it has read, that row is
\* what the table stores for the key, so it smooths from the score the
\* recompute before it stored.
C5_SmoothsFromStored ==
    \A s \in Slots :
        (h[s].type = "log_catch" /\ h[s].pc = "rc_commit") =>
            IF h[s].rc.old.id = 0
            THEN RowsOf(biteScores, h[s].rc.species, h[s].rc.zone) = {}
            ELSE h[s].rc.old \in biteScores

\* the recompute of the second catch has read the row the first one stored
C5_Witness ==
    \E s \in Slots :
        /\ h[s].type = "log_catch" /\ h[s].pc = "rc_commit"
        /\ h[s].catchId = 2 /\ h[s].rc.N = 2
        /\ h[s].rc.old.id # 0 /\ h[s].rc.old.last_updated = 1
        /\ h[s].rc.old \in biteScores

\* C6: no two runs of one job function (fetch_all_data, capture_environment)
\* are going at the same time.
C6_NonReentrant ==
    \A j1 \in JobIds, j2 \in JobIds :
        (j1 # j2 /\ JobFunc(j1) = JobFunc(j2)) =>
            ~(jobs[j1].pc # "idle" /\ jobs[j2].pc # "idle")

\* C7: in one catch event the Catch row is committed before any learning
\* updater runs, the recompute starts after the rig, zone-condition and
\* rig-condition updates of the event have finished and reads their counts,
\* and the tip update runs after the recompute.
C7_StepsOrdered ==
    \A s \in Slots :
        h[s].type = "log_catch" =>
            LET log == h[s].log
                At(x) == {i \in 1..Len(log) : log[i] = x}
                Before(x, y) == \A j \in At(y) : \E i \in At(x) : i < j
            IN /\ Before("catch_commit", "rig")
               /\ Before("catch_commit", "zce")
               /\ Before("catch_commit", "rce")
               /\ Before("rig", "recalc_begin")
               /\ Before("zce", "recalc_begin")
               /\ Before("rce", "recalc_begin")
               /\ Before("recalc_done", "tip")
               /\ At("catch_commit") # {} =>
                      \E c \in catches : c.id = h[s].catchId
               /\ h[s].pc \in {"rc_read", "rc_commit"} =>
                      /\ h[s].rc.N >= 1
                      /\ \E r \in RowsOf(rigEffects, h[s].species, h[s].zone) :
                             r.rig = h[s].rig /\ r.last_used = h[s].catchId
                      /\ h[s].tide # "unknown" =>
                             /\ RowsOf(zoneCondEffects, h[s].species, h[s].zone) # {}
                             /\ \E r \in rigCondEffects :
                                    r.species = h[s].species /\ r.rig = h[s].rig

\* a catch event has run all its steps, in order
C7_Witness ==
    \E s \in Slots :
        /\ h[s].type = "log_catch" /\ h[s].pc = "respond" /\ ~h[s].raised
        /\ h[s].log = <<"catch_commit", "rig", "zce", "rce", "recalc_begin",
                        "recalc_done", "tip">>

\* C8: a step changes the BiteScore rows only when it is the commit of
\* recalculate_bite_score, and the BaitScore rows only when it is
\* recalculate_bait_score.
C8_OnlyCacheWrites ==
    [][/\ biteScores' # biteScores => (PerRcCommit \/ \E s \in Slots : HRcCommit(s))
       /\ baitScores' # baitScores => \E s \in Slots : LogBaitScore(s)]_vars

\* the learning and tip updates of a catch event have run over a cached row
C8_Witness ==
    \E s \in Slots :
        /\ h[s].type = "log_catch" /\ h[s].pc = "respond" /\ ~h[s].raised
        /\ rigEffects # {} /\ zoneCondEffects # {} /\ tips # {}
        /\ RowsOf(biteScores, h[s].species, h[s].zone) # {}

\* C9: every BiteScore row has the rating of its stored score.
C9_RatingMatchesScore ==
    \A r \in biteScores : r.rating = get_score_rating(r.score)

\* C10: every cached BiteScore and BaitScore score lies in [0, 100].
C10_ScoresInRange ==
    /\ \A r \in biteScores : r.score >= 0 /\ r.score <= 1000
    /\ \A r \in baitScores : r.score >= 0 /\ r.score <= 1000

\* sub-scores summing above 100 and below 0 have been cached, clamped
C10_Witness ==
    /\ \E r \in baitScores : r.score = 1000
    /\ \E r \in biteScores : r.score = 0

\* C11: every RigEffect row has weight min(3, ln(success_count + 1)) and
\* every ZoneConditionEffect and RigConditionEffect row has weight
\* min(4, ln(success_count + 1)), on the stored success_count.
C11_WeightIsCappedLog ==
    /\ \A r \in rigEffects : r.weight = Min2(3000, LnMilli(r.success_count))
    /\ \A r \in zoneCondEffects : r.weight = Min2(4000, LnMilli(r.success_count))
    /\ \A r \in rigCondEffects : r.weight = Min2(4000, LnMilli(r.success_count))

\* a catch has been deleted; a rig weight stands at its cap and a crab-trap
\* catch has left a fractional count
C11_Witness ==
    /\ Cardinality(catches) < seq.catch - 1
    /\ \E r \in rigEffects : r.success_count >= 2000 /\ r.weight = 3000
    /\ \E r \in zoneCondEffects : r.success_count = 15 /\ r.weight = 140
    /\ \E r \in rigCondEffects : r.success_count = 15 /\ r.weight = 140

\* C12 as stated: after the second of two recomputes in a row under the same
\* conditions the cached score equals the cached score after the first.
C12_TwiceSameScore ==
    per.pc = "twice" =>
        \A r \in RowsOf(biteScores, per.rc.species, per.rc.zone) :
            r.score = per.rc.old.score

\* C12, amended: the score after the second recompute lies between the
\* score after the first and the raw score; it equals the score after the
\* first when that is the raw score (as when the first call created the
\* row), and differs from it when that is a point or more off the raw score.
C12_SecondMovesTowardRaw ==
    per.pc = "twice" =>
        \A r \in RowsOf(biteScores, per.rc.species, per.rc.zone) :
            LET first == per.rc.old.score
                raw == per.rc.raw
            IN /\ Min2(first, raw) <= r.score /\ r.score <= Max2(first, raw)
               /\ first = raw => r.score = first
               /\ (first - raw >= 10 \/ raw - first >= 10) => r.score # first

\* the second recompute has smoothed a score that was off the raw score
C12_Witness ==
    /\ per.pc = "twice"
    /\ per.rc.old.score - per.rc.raw >= 10
    /\ \E r \in RowsOf(biteScores, per.rc.species, per.rc.zone) :
           r.score < per.rc.old.score /\ r.score > per.rc.raw

\* C13: the step of delete_catch changes no BiteScore, BaitScore, RigEffect,
\* ZoneConditionEffect, RigConditionEffect or SpeciesZoneTip row (nor any
\* BaitLog or PredatorLog row).
C13_DeleteTouchesOnlyCatch ==
    [][(\E s \in Slots : /\ h[s].type = "delete_catch" /\ h[s].pc = "delete"
                         /\ h'[s].pc = "done")
         => UNCHANGED <<biteScores, baitScores, rigEffects, zoneCondEffects,
                        rigCondEffects, tips, baitLogs, predatorLogs>>]_vars

\* a catch that had updated the learning tables and the cache has been
\* deleted
C13_Witness ==
    /\ \E s \in Slots : /\ h[s].type = "delete_catch" /\ h[s].pc = "done"
                        /\ h[s].response = "success"
    /\ catches = {} /\ seq.catch = 2
    /\ \E r \in rigEffects : r.last_used = 1
    /\ biteScores # {}

\* the (species, zone, rig) keys of the catches that are logged
RigKeys == {<<p.species, p.zone, p.presentation>> :
               p \in {q \in LearnPayloads : q.type = "log_catch"}}

\* the catch events of a key whose triggers ran to the end
LoggedFor(k) == {e \in completed : <<e.species, e.zone, e.rig>> = k}

\* the Catch rows of a key that are still stored
StoredFor(k) == {c \in catches : <<c.species, c.zone, c.rig>> = k}

\* RigEffect.success_count of a key, 0 without a row
RigCount(k) ==
    LET rows == {r \in rigEffects : <<r.species, r.zone, r.rig>> = k}
    IN IF rows = {} THEN 0 ELSE FirstRow(rows).success_count

\* RigEffect.success_count of a key before the first event
RigCountBefore(k) ==
    IF <<LearnedRig.species, LearnedRig.zone, LearnedRig.rig>> = k
    THEN LearnedRig.success_count ELSE 0

\* every catch event so far ran its triggers to the end
AllEventsRan == Cardinality(completed) = seq.catch - 1

\* C14 as stated: when a catch has been logged N times and all but one of
\* its Catch rows are deleted, the rig's success_count is what one logging
\* gives.
C14_SameAsLoggingOnce ==
    \A k \in RigKeys :
        (AllEventsRan /\ LoggedFor(k) # {} /\ Cardinality(StoredFor(k)) = 1)
            => RigCount(k) = RigCountBefore(k) + 100

\* C14, amended: the rig's success_count is what logging the catch N times
\* gives, whatever number of the N Catch rows has been deleted since.
C14_SameAsLoggingAll ==
    \A k \in RigKeys :
        AllEventsRan
            => RigCount(k) = RigCountBefore(k) + 100 * Cardinality(LoggedFor(k))

\* a catch logged twice, one of the two rows deleted: the count stands at 2
C14_Witness ==
    \E k \in RigKeys :
        /\ AllEventsRan /\ Cardinality(LoggedFor(k)) = 2
        /\ Cardinality(StoredFor(k)) = 1
        /\ RigCount(k) = RigCountBefore(k) + 200

\* the species of the tier lists and the five zones
KnownSpecies == SeqRange(TIER_1_SPECIES) \cup SeqRange(TIER_2_SPECIES)

ValidKey(sp, zn) == sp \in KnownSpecies /\ zn \in SeqRange(AllZones)

\* C15: a catch write with a zone_id outside the five zones or an unknown
\* species is answered with a 4xx and leaves no Catch row, no learning row,
\* no BiteScore row and no tip.
C15_InvalidRejected ==
    /\ \A s \in Slots :
           (h[s].type = "log_catch" /\ h[s].pc = "done"
              /\ ~ValidKey(h[s].species, h[s].zone)) => h[s].response = "error4xx"
    /\ \A r \in catches \cup rigEffects \cup zoneCondEffects \cup biteScores \cup tips :
           ValidKey(r.species, r.zone)
    /\ \A r \in rigCondEffects : r.species \in KnownSpecies

\* C16: on a database without snapshot, forecast window and catches, when
\* the first POST /api/catches, for speckled_trout in Zone 3, has returned
\* there is exactly one Catch row and a BiteScore row of the key with
\* confidence low.
C16_FirstCatchCachesScore ==
    \A s \in Slots :
        (/\ h[s].type = "log_catch" /\ h[s].pc = "done"
         /\ h[s].response = "success"
         /\ h[s].species = "speckled_trout" /\ h[s].zone = "Zone 3"
         /\ snapshots = 0 /\ windows = 0 /\ seq.catch = 2)
            => /\ Cardinality(catches) = 1
               /\ \E r \in RowsOf(biteScores, "speckled_trout", "Zone 3") :
                      r.confidence = "low"

\* C17: when the first catch of a (species, zone), posted with rig_type
\* "jig", has run its triggers to the end, the key has a RigEffect row for
\* jig with success_count 1 and weight ln 2.
C17_PostedRigIsLearned ==
    \A s \in Slots :
        (/\ h[s].type = "log_catch" /\ h[s].pc = "done"
         /\ h[s].response = "success" /\ ~h[s].raised
         /\ h[s].body_rig_type = "jig" /\ seq.catch = 2)
            => \E r \in RowsOf(rigEffects, h[s].species, h[s].zone) :
                   r.rig = "jig" /\ r.success_count = 100 /\ r.weight = 693

\* ZoneConditionEffect.success_count of a (species, zone, tide band), 0
\* without a row
ZceCount(sp, zn, tide_band) ==
    LET rows == {r \in RowsOf(zoneCondEffects, sp, zn) : r.tide_band = tide_band}
    IN IF rows = {} THEN 0 ELSE FirstRow(rows).success_count

C19_NoTipBelowFifty ==
    (/\ per.pc = "idle"
     /\ \A s \in Slots : h[s].pc \in {"idle", "done"} /\ ~h[s].raised)
        => \A t \in tips : \A r \in RowsOf(biteScores, t.species, t.zone) :
               r.score >= 500

\* the rig C20 asks a tip of the key to name
ClaimedRig(sp, zn) ==
    LET rows == {r \in RowsOf(rigEffects, sp, zn) : r.success_count >= 200}
        Better(x, y) == \/ x.weight > y.weight
                        \/ x.weight = y.weight /\ x.last_used >= y.last_used
    IN IF rows = {} THEN DEFAULT_RIGS(sp)
       ELSE (CHOOSE x \in rows : \A y \in rows : Better(x, y)).rig

\* C20: the tip a catch event stores names the rig of the RigEffect row of
\* the key with the highest weight among the rows with success_count >= 2,
\* of the most recently used one when several tie on weight, and the
\* species default when no row qualifies.
C20_TipNamesBestRig ==
    [][\A s \in Slots :
          (/\ h[s].type = "log_catch" /\ h[s].pc = "tip"
           /\ h'[s].pc = "respond" /\ ~h'[s].raised)
          => \A t \in RowsOf(tips', h[s].species, h[s].zone) :
                 t.rig = ClaimedRig(h[s].species, h[s].zone)]_vars

\* C21: for a prey species and a zone, when no stored predator sighting of the
\* zone has a time within the last 4 hours, the predator modifier is 0,
\* whatever times the users supplied
C21_NoRecentNoModifier ==
    \A e \in evaluated :
        (/\ is_prey_species(e.species)
         /\ ~\E p \in e.logs : /\ p.time >= e.now - PredatorLookback
                               /\ p.time <= e.now)
        => e.predator_modifier = 0

\* C22: for the prey species speckled_trout, white_trout, menhaden, mullet and
\* shrimp, when the most recent sighting of the zone is h < 4 hours old the
\* predator term of the zone bite score is -8 * (1 - h / 4); for other
\* species it is 0
C22_PreyTermDecays ==
    \A e \in evaluated :
        IF e.species \in {"speckled_trout", "white_trout", "menhaden",
                          "mullet", "shrimp"}
        THEN \A p \in e.logs :
                 (/\ \A q \in e.logs : q.time <= p.time
                  /\ p.time <= e.now
                  /\ e.now - p.time < PredatorLookback)
                 => e.predator_penalty * PredatorLookback =
                      0 - PredatorFullPenalty * (PredatorLookback - (e.now - p.time))
        ELSE e.predator_penalty = 0

C25_SnapshotsFiveMinutesApart ==
    \A r1, r2 \in snapshotRows :
        r1.id # r2.id =>
            \/ r1.timestamp - r2.timestamp >= RecentMinutes
            \/ r2.timestamp - r1.timestamp >= RecentMinutes

\* the startup capture found the snapshot that an earlier run left less than
\* 5 minutes before and wrote nothing; a later interval capture wrote a row
C25_Witness ==
    /\ \E j \in JobIds :
          /\ JobFunc(j) = "capture_environment" /\ IsStartupJob(j)
          /\ jobs[j].fired = 1 /\ jobs[j].pc = "idle"
          /\ ~\E r \in snapshotRows : r.timestamp = 0
    /\ \E r1, r2 \in snapshotRows :
          /\ r1.timestamp < 0 /\ r1.timestamp >= 0 - RecentMinutes
          /\ r2.timestamp > 0

\* C23: in one ingestion run the steps tide, weather forecast, astronomy,
\* water temperature, weather observations, forecast-window build and alert
\* evaluation are each attempted whatever failed before; the alert
\* evaluation runs even when the forecast-window build fails
C23_EveryStepAttempted ==
    \A j \in JobIds :
        (JobFunc(j) = "fetch_all_data" /\ jobs[j].fired > 0 /\ jobs[j].pc = "idle")
        => jobs[j].attempted = {"tide", "weather", "astro", "watertemp", "obs",
                                "forecast", "alerts"}

\* C26: the alert evaluation creates an Alert for (species, window_start) only
\* if the score is at or above the threshold and no active alert for it
\* existed when the evaluation began; evaluating unchanged windows again
\* creates no new Alert rows
C26_NoDuplicateAlerts ==
    [][\A a \in alerts' :
          (~\E b \in alerts : b.id = a.id)
          => /\ \E w \in forecastWindows, f \in speciesForecasts :
                   /\ w.start_time = a.window_start
                   /\ f.window_id = w.id /\ f.species = a.species
                   /\ f.bite_score >= AlertThreshold
             /\ ~\E b \in alerts : /\ b.species = a.species
                                   /\ b.window_start = a.window_start
                                   /\ b.is_active]_vars

\* C27: the alert evaluation deactivates an alert only when its window has
\* ended or it is superseded; after an evaluation an active alert whose
\* window has not ended and whose score is still at or above the threshold
\* is still active, itself or through the alert that supersedes it
C27_HotAlertStaysActive ==
    [][\A a \in alerts :
          (/\ alerts' # alerts
           /\ a.is_active
           /\ a.window_end > clock
           /\ \E w \in forecastWindows, f \in speciesForecasts :
                 /\ w.start_time = a.window_start
                 /\ f.window_id = w.id /\ f.species = a.species
                 /\ f.bite_score >= AlertThreshold)
          => \E b \in alerts' : /\ b.species = a.species
                                /\ b.window_start = a.window_start
                                /\ b.is_active]_vars

\* C28: after any sequence of forecast rebuilds every SpeciesForecast row
\* belongs to an existing ForecastWindow: deleting a stale window deletes its
\* per-species rows
C28_NoOrphanForecast ==
    \A f \in speciesForecasts : \E w \in forecastWindows : w.id = f.window_id

\* a rebuild has just deleted the windows of its horizon, one of which had
\* raised an alert, and no per-species row is left
C28_Witness ==
    \E j \in JobIds :
        /\ jobs[j].pc = "fc_insert"
        /\ \E a \in alerts : a.window_start >= jobs[j].start_time
        /\ forecastWindows = {} /\ speciesForecasts = {}

\* C29: a forecast rebuild deletes the old windows and inserts the new ones
\* in one transaction: no reader sees the horizon without windows once it had
\* some, and a failed rebuild leaves the previous windows in place
C29_HorizonNeverEmpty ==
    [][LET upcoming(ws) == {w \in ws : w.start_time >= 60 * (clock \div 60)}
       IN  (clock' = clock /\ upcoming(forecastWindows) # {})
           => upcoming(forecastWindows') # {}]_vars

\* C30: when the marine safety level is UNSAFE, every bite_score stored by the
\* forecast-window builder is running_factor * env_score * 100 less the
\* UNSAFE penalty, clamped
C30_UnsafePenaltyApplied ==
    \A f \in speciesForecasts :
        f.safety = "UNSAFE"
        => f.bite_score = ClampScore(f.total_score - UnsafePenalty)

\* C34: a recompute stores the clamped raw score when no cached row exists
\* for the key or when force_recalc is true; otherwise it stores
\* S_old * (1 - w) + raw_score * w, w the smoothing weight of the catch count
C34_StoresRawOrSmoothed ==
    \A e \in evaluated :
        IF e.rc.old.id = 0 \/ e.rc.force
        THEN e.new_score = ClampScore(e.rc.raw)
        ELSE LET exact == e.rc.old.score * (4000 - e.weight) + e.rc.raw * e.weight
             IN  /\ 4000 * e.new_score <= exact
                 /\ exact < 4000 * (e.new_score + 1)

\* a prior row exists, force_recalc is false and the stored score lies
\* strictly between the cached and the raw score
C34_Witness ==
    \E e \in evaluated :
        /\ e.rc.old.id # 0 /\ ~e.rc.force
        /\ e.rc.old.score < e.new_score /\ e.new_score < e.rc.raw

C33_RecomputeStillAttempted ==
    \A s \in Slots :
        (/\ h[s].type = "log_catch" /\ h[s].pc = "respond"
         /\ \E i \in 2..Len(h[s].log) :
               /\ h[s].log[i] = "raise"
               /\ h[s].log[i - 1] \in {"catch_commit", "rig", "zce"})
        => \E k \in 1..Len(h[s].log) : h[s].log[k] = "recalc_begin"

\* C38: no learning increment is lost: once the catch events of a
\* (species, zone, rig) have all completed, n of them, in whatever order
\* their handlers ran, exactly one RigEffect row exists for the key and its
\* success_count is n
C38_NoLostIncrement ==
    (\A s \in Slots : h[s].pc \in {"idle", "done"}) =>
        \A c \in catches :
            LET events == {e \in catches : e.species = c.species /\ e.zone = c.zone
                                             /\ e.rig = c.rig}
                ended == {e \in completed : e.species = c.species /\ e.zone = c.zone
                                              /\ e.rig = c.rig}
                rows == {r \in RowsOf(rigEffects, c.species, c.zone) : r.rig = c.rig}
            IN  (c.rig \notin {"", "unknown"} /\ Cardinality(ended) = Cardinality(events))
                => /\ Cardinality(rows) = 1
                   /\ \A r \in rows : r.success_count = 100 * Cardinality(events)

\* two catch events of one key have completed and its row counts two
C38_Witness ==
    /\ \A s \in Slots : h[s].pc \in {"idle", "done"}
    /\ \E r \in rigEffects :
          /\ r.success_count = 200
          /\ Cardinality({e \in completed : e.species = r.species /\ e.zone = r.zone
                                              /\ e.rig = r.rig}) = 2

\* C36: a periodic run recomputes every pair with a catch in the last 6
\* hours and every prey-species pair of each zone with a predator log in the
\* last 6 hours, covers each zone with a bait log in the last 6 hours, and
\* takes pairs without any such activity only when there is no activity
C36_RunCoversActivity ==
    [][(per.pc = "idle" /\ per'.pc = "loop") =>
          LET catch_pairs == {<<c.species, c.zone>> : c \in {x \in catches : x.recent}}
              predator_zones == {p.zone : p \in {x \in predatorLogs : x.recent}}
              bait_zones == {b.zone : b \in {x \in baitLogs : x.recent}}
              prey_pairs == {<<sp, zn>> : sp \in {x \in SpeciesSet : is_prey_species(x)},
                                          zn \in predator_zones}
          IN  /\ catch_pairs \subseteq per'.pairs
              /\ prey_pairs \subseteq per'.pairs
              /\ \A zn \in bait_zones : \E p \in per'.pairs : p[2] = zn
              /\ (catch_pairs # {} \/ predator_zones # {} \/ bait_zones # {})
                 => \A p \in per'.pairs :
                       p \in catch_pairs \/ p \in prey_pairs \/ p[2] \in bait_zones]_vars

\* C37: while the scheduler keeps running, the periodic job eventually
\* recomputes the cached score of the Tier 1 pair (speckled_trout, Zone 3),
\* also when another pair has activity in every lookback
C37_TierOneEventuallyRecomputed ==
    <>(per.cur = <<"speckled_trout", "Zone 3">>)

\* C39: no two stored ForecastWindow rows overlap in time, whenever the
\* forecast builds ran
C39_WindowsDoNotOverlap ==
    \A w1 \in forecastWindows, w2 \in forecastWindows :
        w1.id # w2.id =>
            w1.end_time <= w2.start_time \/ w2.end_time <= w1.start_time

\* C35: the recent-activity modifier is the decayed sum over the catches of
\* the last 6 hours, capped at +10 and then multiplied by the confidence
\* weight, so it never exceeds 3 for a pair with fewer than 10 catches and
\* never exceeds 6 for a pair with fewer than 50
C35_CappedThenWeighted ==
    \A e \in evaluated :
        /\ e.recent_activity =
              (Min2(10000, ActivitySum({c \in e.rows : c.hours_ago <= ActivityLookback}))
                 * e.weight) \div 10
        /\ e.count < 10 => e.recent_activity <= 3000
        /\ e.count < 50 => e.recent_activity <= 6000

\* C31: when the fetch fails on every station after an earlier successful
\* fetch, the client returns the last cached value together with an
\* indication that it is stale: what it returns carries the cached reading
\* and differs from the value as it was returned fresh
C31_StaleValueIsMarked ==
    \A c \in DOMAIN clients :
        clients[c].outcome = "stale" =>
            /\ clients[c].returned.reading = clients[c].cached.reading
            /\ clients[c].returned # clients[c].cached

\* C32: whenever the strong cold-north-wind penalty applies, the zone
\* recommendation lists no shallow zone (1 or 2) ahead of any of the zones
\* 3, 4 and 5
C32_ShallowBelowDeep ==
    \A e \in evaluated :
        e.cold_north_penalty =>
            \A i \in 1..Len(e.zones) :
                e.zones[i] \in {1, 2} =>
                    \A z \in {3, 4, 5} : \E j \in 1..(i - 1) : e.zones[j] = z

=============================================================================
